---- MODULE Spec2Model ----
(***************************************************************************)
(* The live playback controller of the Mixer component                     *)
(* (src/frontend/src/components/Mixer.js): slider edits, the debounced     *)
(* live update, the render requests of play and of live updates, the       *)
(* crossfade handover, pause / resume / stop and the unmount cleanup.      *)
(*                                                                         *)
(* Time is counted in ticks of 100 ms.  Every render request (playMix or   *)
(* updatePlayingAudio) is an asynchronous operation with its own slot in   *)
(* ops; the Audio element it creates has the same index in audios.         *)
(* Volumes are counted in units of 1/steps.                                *)
(***************************************************************************)
EXTENDS Integers, Sequences, FiniteSets, Bags, TLC

\* ---- bounds ----
MaxOps == 3
FewOps == 2
MaxEdits == 2
Duration == 4
FadeGrain == 15

MaxUploads == 2
FewUploads == 1
MaxPolls == 3
MaxModels == 2
MaxFits == 2
MaxSongs == 2

\* ---- program constants ----
steps == 30
DebounceTicks == 2
FallbackTicks == 5

channels == {"vocals", "drums", "bass", "other"}

\* the slider edits of a run: the slider dragged and the value dragged to, as
\* the string the range input reports
SliderEdits == {<<"vocals", <<"6">>>>, <<"bass", <<"-", "3">>>>}

OpIds == 1..MaxOps

Min(a, b) == IF a < b THEN a ELSE b
Max(a, b) == IF a > b THEN a ELSE b

\* ---- parseInt(val) of handleChange ----
DigitVal(c) ==
  CASE c = "0" -> 0 [] c = "1" -> 1 [] c = "2" -> 2 [] c = "3" -> 3
    [] c = "4" -> 4 [] c = "5" -> 5 [] c = "6" -> 6 [] c = "7" -> 7
    [] c = "8" -> 8 [] c = "9" -> 9

RECURSIVE ParseNat(_)
ParseNat(s) ==
  IF s = <<>> THEN 0
  ELSE 10 * ParseNat(SubSeq(s, 1, Len(s) - 1)) + DigitVal(s[Len(s)])

parseInt(s) == IF s[1] = "-" THEN 0 - ParseNat(Tail(s)) ELSE ParseNat(s)

\* useState(initialGains || Object.fromEntries(channels.map(c => [c.key, 0])))
DefaultGains == [c \in channels |-> 0]

VARIABLES
  mounted,            \* the Mixer component is mounted
  gains,              \* useState gains
  playing,            \* useState playing
  paused,             \* useState paused
  audioRef,           \* audioRef.current: 0 is null, else an audio index
  updateTimeoutRef,   \* updateTimeoutRef.current: 0 is null, else a timer id
  timers,             \* pending debounce timeouts: records [id, g, left]
  edits,              \* slider edits made so far
  audios,             \* the Audio elements, by index
  ops,                \* the playMix / updatePlayingAudio calls, by index
  nextOp,             \* render requests sent so far
  opBudget,           \* render requests the run may send
  autoTimer,          \* the timeout of the autoPlay effect: set, and the gains
                      \* of the render that set it
  burst,              \* history: the current burst of live slider edits
  stopped             \* history: stop() was the last play/stop command and
                      \* found no play request in flight

\* the separation job tracker of the Mixer and the separation service
VARIABLES
  file,                \* useState file: NoFile is null
  audioFeatures,       \* useState audioFeatures: 0 is null, else a feature id
  separating,          \* useState separating
  progress,            \* useState progress, in percent
  progressIntervalRef, \* progressIntervalRef.current: 0 is null, else an interval id
  intervals,           \* the intervals that are set and not cleared
  uploads,             \* the handleUpload calls, by index
  nextUpload,          \* handleUpload calls so far
  upBudget,            \* handleUpload calls the run may make
  polls,               \* the pollProgress calls that wait for their response,
                       \* a bag of [by, data]
  pollCount,           \* pollProgress calls so far
  job,                 \* the separation service: status and progress of its job
  alerts,              \* the alerts raised, counted by upload and kind
  terminalSeen         \* history: a terminal poll response was processed and
                       \* no polling interval has been started since

jobVars == <<file, audioFeatures, separating, progress, progressIntervalRef,
             intervals, uploads, nextUpload, upBudget, polls, pollCount, job,
             alerts, terminalSeen>>

\* the App component, the preference models and localStorage
VARIABLES
  user,                \* useState user: NoUser is null
  tab,                 \* useState tab
  songsByUser,         \* useState songsByUser
  userModelRef,        \* userModelRef.current: 0 is null, else a model index
  userModelProp,       \* the userModel prop the Mixer got at the last render of App
  models,              \* the UserPreferenceModel objects, in the order they
                       \* were created
  localStorage,        \* localStorage["userModel_" + userId]
  fitCount,            \* model.fit calls started so far
  mixerGains,          \* useState mixerGains: NoGains is null
  autoPlayMix,         \* useState autoPlayMix
  hist                 \* history: the last handler or method that ran

appVars == <<user, tab, songsByUser, userModelRef, userModelProp, models,
             localStorage, fitCount, mixerGains, autoPlayMix, hist>>

\* the feature pipeline of handleFileSelect and the gain formulas of the
\* preference model, applied to one input
VARIABLES
  calc                 \* the input and the results computed from it so far

vars == <<mounted, gains, playing, paused, audioRef, updateTimeoutRef, timers,
          edits, audios, ops, nextOp, opBudget, autoTimer, burst, stopped, jobVars, appVars, calc>>

\* new Audio(url): paused, at position 0, full volume, nothing buffered
NoAudio == [made |-> FALSE, paused |-> TRUE, ready |-> FALSE, pos |-> 0, vol |-> steps]

NoOp == [kind |-> "none", pc |-> "idle", g |-> DefaultGains, cap |-> 0,
         wasPlaying |-> FALSE, old |-> 0, oldVol |-> 0, step |-> 0, fb |-> -1]

\* setTimeout of the autoPlay effect: not set
NoTimer == [set |-> FALSE, g |-> DefaultGains]

\* g: the gains after the last live edit; age: ticks since that edit; n: the
\* edits of the burst; sent: live render requests sent since that edit; good:
\* every live render request so far came a full quiet period after the last
\* live edit and carried the gains of that edit
NoBurst == [g |-> DefaultGains, age |-> DebounceTicks, sent |-> 0, good |-> TRUE,
            n |-> 0]

\* ---- the data of the tracker, the App and the preference model ----
Users == {"Alex", "Sam"}
NoUser == ""

\* the files the user can choose: the name as its characters, and the feature
\* vector extractAudioFeatures gets from the content (0: it cannot be decoded)
Files == {[name |-> <<"a", ".", "m">>, feat |-> 1],
          [name |-> <<"b", ".", "w">>, feat |-> 0]}
NoFile == [name |-> <<>>, feat |-> 0]

\* prev: history, the session state when the upload attempt began
NoPrev == [file |-> NoFile, gains |-> DefaultGains, audioFeatures |-> 0]
NoUpload == [pc |-> "idle", f |-> NoFile, prev |-> NoPrev]
UploadIds == 1..MaxUploads

\* data.progress in thousandths
ProgressLevels == {0, 500, 1000}
NoAlerts == [complete |-> 0, error |-> 0, start |-> 0]

\* the parameters of a model: the random initial weights (seed) and the fit
\* calls applied to them; NoWeights is null
Seeds == {1, 2}
NoWeights == [seed |-> 0, fits |-> <<>>]

\* a song without a gains field (saved by an earlier version of the App)
NoGains == [c \in channels |-> -999]
NoMix == [title |-> <<>>, artist |-> "", details |-> <<>>, gains |-> NoGains,
          features |-> 0]
NoFit == [kind |-> "none", batch |-> <<>>, mix |-> NoMix, user |-> NoUser]

\* new UserPreferenceModel(userId)
NewModel(userId) ==
  [userId |-> userId, isInitialized |-> FALSE, model |-> NoWeights, fit |-> NoFit]
NoModel == NewModel(NoUser)
ModelIds == 1..MaxModels

NoHist == [act |-> "none", m |-> 0, idx |-> 0, call |-> "none", songs |-> <<>>,
           outcome |-> "none"]

\* the normalized features of a file, in thousandths, before any is extracted
featureNames == <<"duration", "sampleRate", "rms", "zeroCrossingRate",
                  "spectralCentroid", "spectralRolloff", "spectralFlux", "tempo",
                  "mfcc0", "mfcc1", "mfcc2", "mfcc3", "mfcc4">>
NoFeatures == [duration |-> 0, sampleRate |-> 0, rms |-> 0, zeroCrossingRate |-> 0,
               spectralCentroid |-> 0, spectralRolloff |-> 0, spectralFlux |-> 0,
               tempo |-> 0, mfcc0 |-> 0, mfcc1 |-> 0, mfcc2 |-> 0, mfcc3 |-> 0,
               mfcc4 |-> 0]

\* features: a feature record; d: a gain in dB; done: the functions applied
NoCalc == [features |-> NoFeatures, d |-> 0, done |-> {}, genreVector |-> <<>>,
           featureVector |-> <<>>, values |-> [c \in channels |-> 0],
           predicted |-> NoGains, normalized |-> 0, back |-> 0]

MixerInit(budget, ups) ==
  /\ gains = DefaultGains
  /\ playing = FALSE
  /\ paused = FALSE
  /\ audioRef = 0
  /\ updateTimeoutRef = 0
  /\ timers = {}
  /\ edits = 0
  /\ audios = [i \in OpIds |-> NoAudio]
  /\ ops = [i \in OpIds |-> NoOp]
  /\ nextOp = 0
  /\ opBudget = budget
  /\ burst = NoBurst
  /\ stopped = FALSE
  /\ autoTimer = NoTimer
  /\ file = NoFile
  /\ audioFeatures = 0
  /\ separating = FALSE
  /\ progress = 0
  /\ progressIntervalRef = 0
  /\ intervals = {}
  /\ uploads = [i \in UploadIds |-> NoUpload]
  /\ nextUpload = 0
  /\ upBudget = ups
  /\ polls = EmptyBag
  /\ pollCount = 0
  /\ job = [status |-> "idle", progress |-> 0]
  /\ alerts = [i \in UploadIds |-> NoAlerts]
  /\ terminalSeen = FALSE

\* the App after user u was selected on the landing page: the effect has
\* created and initialized the model; prop is the userModel prop of the Mixer
LoggedIn(u, prop) ==
  /\ mounted = TRUE
  /\ user = u
  /\ tab = "mixer"
  /\ songsByUser = [v \in Users |-> <<>>]
  /\ userModelRef = 1
  /\ userModelProp = prop
  /\ models = [m \in ModelIds |->
                 IF m = 1
                 THEN [NewModel(u) EXCEPT !.isInitialized = TRUE,
                                          !.model = [seed |-> 1, fits |-> <<>>]]
                 ELSE NoModel]
  /\ localStorage = [v \in Users |-> <<>>]
  /\ fitCount = 0
  /\ mixerGains = NoGains
  /\ autoPlayMix = FALSE
  /\ hist = NoHist
  /\ calc = NoCalc

InitWith(budget) == MixerInit(budget, 0) /\ LoggedIn("Alex", 0)

Init == InitWith(MaxOps)

\* ---- React state setters: a setter of an unmounted component does nothing ----
SetFlags(p, q) ==
  IF mounted THEN playing' = p /\ paused' = q ELSE UNCHANGED <<playing, paused>>

\* ---- the audio device ----
\* HTMLMediaElement.pause()
PauseIn(A, a) == IF a = 0 THEN A ELSE [A EXCEPT ![a].paused = TRUE]

\* pause() rejects the play() promise that is still waiting for data
AbortIn(O, A, a) ==
  IF a # 0 /\ O[a].pc = "playwait" /\ ~A[a].paused /\ ~A[a].ready
  THEN [O EXCEPT ![a].pc = "playrej"]
  ELSE O

\* HTMLMediaElement.play() accepted by the device: an ended stream restarts
PlayIn(A, a) ==
  [A EXCEPT ![a].paused = FALSE,
            ![a].pos = IF A[a].pos >= Duration THEN 0 ELSE A[a].pos]

Unpaused(a) == audios[a].made /\ ~audios[a].paused

\* a call that has returned: its locals are gone
Done(o) == o.pc \in {"ok", "failed"}
Finish(o, result) == [NoOp EXCEPT !.kind = o.kind, !.g = o.g, !.pc = result]

\* a paused Audio that neither audioRef nor a running call refers to is garbage
Garbage(A, O, ref, a) ==
  /\ A[a].made /\ A[a].paused
  /\ ref # a
  /\ Done(O[a])
  /\ \A i \in OpIds : O[i].old # a

\* the state the handler leaves: audio elements A, calls O, audioRef ref
Leave(A, O, ref) ==
  /\ audios' = [a \in OpIds |-> IF Garbage(A, O, ref, a) THEN NoAudio ELSE A[a]]
  /\ ops' = O
  /\ audioRef' = ref

clearTimeout(T, id) == {t \in T : t.id # id}

\* handleChange as it would be without clearTimeout(updateTimeoutRef.current)
HandleChangeNoClear(key, val) ==
  LET newGains == [gains EXCEPT ![key] = parseInt(val)] IN
  /\ mounted
  /\ edits < MaxEdits
  /\ parseInt(val) # gains[key]
  /\ gains' = newGains
  /\ edits' = edits + 1
  /\ IF playing /\ ~paused /\ audioRef # 0
     THEN /\ timers' = timers \cup
                 {[id |-> edits + 1, g |-> newGains, left |-> DebounceTicks]}
          /\ updateTimeoutRef' = edits + 1
          /\ burst' = [g |-> newGains, age |-> 0, sent |-> 0, good |-> burst.good,
                       n |-> IF burst.age < DebounceTicks THEN burst.n + 1 ELSE 1]
     ELSE UNCHANGED <<timers, updateTimeoutRef, burst>>
  /\ UNCHANGED <<mounted, playing, paused, audioRef, audios, ops, nextOp,
                 opBudget, autoTimer, stopped>>
  /\ UNCHANGED <<jobVars, appVars, calc>>

\* ---- handleChange(key, val) ----
HandleChange(key, val) ==
  LET newGains == [gains EXCEPT ![key] = parseInt(val)] IN
  /\ mounted
  /\ edits < MaxEdits
  /\ parseInt(val) # gains[key]
  /\ gains' = newGains
  /\ edits' = edits + 1
  /\ IF playing /\ ~paused /\ audioRef # 0
     THEN /\ timers' = clearTimeout(timers, updateTimeoutRef) \cup
                 {[id |-> edits + 1, g |-> newGains, left |-> DebounceTicks]}
          /\ updateTimeoutRef' = edits + 1
          /\ burst' = [g |-> newGains, age |-> 0, sent |-> 0, good |-> burst.good,
                       n |-> IF burst.age < DebounceTicks THEN burst.n + 1 ELSE 1]
     ELSE UNCHANGED <<timers, updateTimeoutRef, burst>>
  /\ UNCHANGED <<mounted, playing, paused, audioRef, audios, ops, nextOp,
                 opBudget, autoTimer, stopped>>
  /\ UNCHANGED <<jobVars, appVars, calc>>

\* ---- the debounce timeout fires: updatePlayingAudio(newGains), up to the fetch ----
DebounceFire(id) ==
  \E t \in timers :
  /\ t.id = id
  /\ t.left = 0
  /\ timers' = timers \ {t}
  /\ IF audioRef = 0
     THEN UNCHANGED <<ops, nextOp, burst>>
     ELSE /\ nextOp < opBudget
          /\ nextOp' = nextOp + 1
          /\ ops' = [ops EXCEPT ![nextOp + 1] =
                 [kind |-> "update", pc |-> "fetch", g |-> t.g,
                  cap |-> audios[audioRef].pos,
                  wasPlaying |-> ~audios[audioRef].paused,
                  old |-> audioRef, oldVol |-> audios[audioRef].vol,
                  step |-> 0, fb |-> -1]]
          /\ burst' = [burst EXCEPT
                 !.sent = Min(burst.sent + 1, 2),
                 !.good = burst.good /\ t.g = burst.g /\ burst.age >= DebounceTicks]
  /\ UNCHANGED <<mounted, gains, playing, paused, audioRef, updateTimeoutRef,
                 edits, audios, opBudget, autoTimer, stopped>>
  /\ UNCHANGED <<jobVars, appVars, calc>>

\* ---- playMix(), up to the fetch; offered by the Play Mix button while !playing ----
playMix ==
  /\ mounted
  /\ ~playing
  /\ nextOp < opBudget
  /\ nextOp' = nextOp + 1
  /\ ops' = [ops EXCEPT ![nextOp + 1] =
         [NoOp EXCEPT !.kind = "play", !.pc = "fetch", !.g = gains]]
  /\ stopped' = FALSE
  /\ UNCHANGED <<mounted, gains, playing, paused, audioRef, updateTimeoutRef,
                 timers, edits, audios, opBudget, autoTimer, burst>>
  /\ UNCHANGED <<jobVars, appVars, calc>>

\* playMix: !resp.ok, no data.path, or the fetch throws; the catch block
PlayRenderFailed(i) ==
  /\ ops[i].kind = "play" /\ ops[i].pc = "fetch"
  /\ Leave(audios, [ops EXCEPT ![i] = Finish(ops[i], "failed")], audioRef)
  /\ SetFlags(FALSE, FALSE)
  /\ UNCHANGED <<mounted, gains, updateTimeoutRef, timers, edits, nextOp,
                 opBudget, autoTimer, burst, stopped>>
  /\ UNCHANGED <<jobVars, appVars, calc>>

\* playMix as it would be without `audioRef.current.pause()`
PlayRenderOkNoPause(i) ==
  LET A2 == [audios EXCEPT ![i] = [NoAudio EXCEPT !.made = TRUE]] IN
  /\ ops[i].kind = "play" /\ ops[i].pc = "fetch"
  /\ Leave(PlayIn(A2, i), [ops EXCEPT ![i].pc = "playwait"], i)
  /\ UNCHANGED <<mounted, gains, playing, paused, updateTimeoutRef, timers,
                 edits, nextOp, opBudget, autoTimer, burst, stopped>>
  /\ UNCHANGED <<jobVars, appVars, calc>>

\* playMix: a path came back; stop the current audio, create the new one and
\* call audio.play(), which the device accepts (the promise stays pending
\* until the stream has buffered)
PlayRenderOk(i) ==
  LET A1 == PauseIn(audios, audioRef)
      O1 == AbortIn(ops, audios, audioRef)
      A2 == [A1 EXCEPT ![i] = [NoAudio EXCEPT !.made = TRUE]]
  IN
  /\ ops[i].kind = "play" /\ ops[i].pc = "fetch"
  /\ Leave(PlayIn(A2, i), [O1 EXCEPT ![i].pc = "playwait"], i)
  /\ UNCHANGED <<mounted, gains, playing, paused, updateTimeoutRef, timers,
                 edits, nextOp, opBudget, autoTimer, burst, stopped>>
  /\ UNCHANGED <<jobVars, appVars, calc>>

\* playMix: a path came back but the device rejects audio.play(); the catch block
PlayDeviceRejected(i) ==
  LET A1 == PauseIn(audios, audioRef)
      O1 == AbortIn(ops, audios, audioRef)
      A2 == [A1 EXCEPT ![i] = [NoAudio EXCEPT !.made = TRUE]]
  IN
  /\ ops[i].kind = "play" /\ ops[i].pc = "fetch"
  /\ Leave(A2, [O1 EXCEPT ![i] = Finish(ops[i], "failed")], i)
  /\ SetFlags(FALSE, FALSE)
  /\ UNCHANGED <<mounted, gains, updateTimeoutRef, timers, edits, nextOp,
                 opBudget, autoTimer, burst, stopped>>
  /\ UNCHANGED <<jobVars, appVars, calc>>

\* playMix: the play() promise was rejected because the audio was paused
\* before it had buffered; the catch block
PlayAborted(i) ==
  /\ ops[i].kind = "play" /\ ops[i].pc = "playrej"
  /\ Leave(audios, [ops EXCEPT ![i] = Finish(ops[i], "failed")], audioRef)
  /\ SetFlags(FALSE, FALSE)
  /\ UNCHANGED <<mounted, gains, updateTimeoutRef, timers, edits, nextOp,
                 opBudget, autoTimer, burst, stopped>>
  /\ UNCHANGED <<jobVars, appVars, calc>>

\* the device has buffered a stream; a play() promise waiting on it resolves
\* and playMix continues after `await audio.play()`
AudioBuffered(a) ==
  /\ audios[a].made /\ ~audios[a].ready
  /\ ops[a].pc # "load"
  /\ audios' = [audios EXCEPT ![a].ready = TRUE]
  /\ IF ops[a].pc = "playwait" /\ ops[a].kind = "play"
     THEN /\ ops' = [ops EXCEPT ![a] = Finish(ops[a], "ok")]
          /\ SetFlags(TRUE, FALSE)
     ELSE UNCHANGED <<ops, playing, paused>>
  /\ UNCHANGED <<mounted, gains, audioRef, updateTimeoutRef, timers, edits,
                 nextOp, opBudget, autoTimer, burst, stopped>>
  /\ UNCHANGED <<jobVars, appVars, calc>>

\* ---- updatePlayingAudio, after the fetch ----
\* !resp.ok, no data.path, or the fetch throws: the catch block only logs
UpdateRenderFailed(i) ==
  /\ ops[i].kind = "update" /\ ops[i].pc = "fetch"
  /\ Leave(audios, [ops EXCEPT ![i] = Finish(ops[i], "failed")], audioRef)
  /\ UNCHANGED <<mounted, gains, playing, paused, updateTimeoutRef, timers,
                 edits, nextOp, opBudget, autoTimer, burst, stopped>>
  /\ UNCHANGED <<jobVars, appVars, calc>>

\* a path came back: new Audio at volume 0, listeners, fallback timeout, load()
UpdateRenderOk(i) ==
  /\ ops[i].kind = "update" /\ ops[i].pc = "fetch"
  /\ audios' = [audios EXCEPT ![i] = [NoAudio EXCEPT !.made = TRUE, !.vol = 0]]
  /\ ops' = [ops EXCEPT ![i].pc = "load", ![i].fb = FallbackTicks]
  /\ UNCHANGED <<mounted, gains, playing, paused, audioRef, updateTimeoutRef,
                 timers, edits, nextOp, opBudget, autoTimer, burst, stopped>>
  /\ UNCHANGED <<jobVars, appVars, calc>>

\* newAudio.onerror: the new stream fails to load (the fallback timeout then
\* finds readyState 0 and does nothing)
UpdateLoadError(i) ==
  /\ ops[i].kind = "update" /\ ops[i].pc = "load"
  /\ Leave(audios, [ops EXCEPT ![i] = Finish(ops[i], "failed")], audioRef)
  /\ SetFlags(FALSE, FALSE)
  /\ UNCHANGED <<mounted, gains, updateTimeoutRef, timers, edits, nextOp,
                 opBudget, autoTimer, burst, stopped>>
  /\ UNCHANGED <<jobVars, appVars, calc>>

\* Math.min(currentTime, newAudio.duration || currentTime)
TargetTime(currentTime, duration) ==
  Min(currentTime, IF duration = 0 THEN currentTime ELSE duration)

\* handleCanPlay of call i, run on the audio elements A; accept: the device
\* accepts newAudio.play(); again: it accepts the play() of the catch block
handleCanPlay(i, A, accept, again) ==
  LET o  == ops[i]
      A1 == [A EXCEPT ![i].pos = TargetTime(o.cap, Duration)]
      A2 == [PauseIn(A1, o.old) EXCEPT ![i].vol = steps]
      O2 == [AbortIn(ops, A1, o.old) EXCEPT ![i] = Finish(o, "ok")]
  IN
  IF o.wasPlaying
  THEN IF accept
       THEN Leave(PlayIn(A1, i), [ops EXCEPT ![i].pc = "playwait", ![i].fb = -1],
                  audioRef)
       ELSE Leave(IF again THEN PlayIn(A2, i) ELSE A2, O2, i)
  ELSE Leave(A2, O2, i)

\* the canplaythrough event of the new stream: handleCanPlay, and the second
\* listener clears the fallback timeout
CanPlayThrough(i) ==
  /\ ops[i].kind = "update" /\ ops[i].pc = "load"
  /\ \E accept \in BOOLEAN, again \in BOOLEAN :
       /\ (accept => again)
       /\ (~ops[i].wasPlaying => accept)
       /\ handleCanPlay(i, [audios EXCEPT ![i].ready = TRUE], accept, again)
  /\ UNCHANGED <<mounted, gains, playing, paused, updateTimeoutRef, timers,
                 edits, nextOp, opBudget, autoTimer, burst, stopped>>
  /\ UNCHANGED <<jobVars, appVars, calc>>

\* the 500 ms fallback timeout: handleCanPlay if readyState >= 2 (has: the
\* device has current data by now), nothing otherwise
FallbackFire(i) ==
  /\ ops[i].fb = 0
  /\ ops[i].pc = "load"
  /\ \E has \in BOOLEAN, accept \in BOOLEAN, again \in BOOLEAN :
       /\ (accept => again)
       /\ (~has \/ ~ops[i].wasPlaying => accept)
       /\ IF has
          THEN handleCanPlay(i, audios, accept, again)
          ELSE /\ ops' = [ops EXCEPT ![i].fb = -1]
               /\ UNCHANGED <<audios, audioRef>>
  /\ UNCHANGED <<mounted, gains, playing, paused, updateTimeoutRef, timers,
                 edits, nextOp, opBudget, autoTimer, burst, stopped>>
  /\ UNCHANGED <<jobVars, appVars, calc>>

\* `await newAudio.play()` resolves: the crossfade interval starts
FadeStart(i) ==
  /\ ops[i].kind = "update" /\ ops[i].pc = "playwait"
  /\ audios[i].ready
  /\ ops' = [ops EXCEPT ![i].pc = "fade", ![i].step = 0]
  /\ UNCHANGED <<mounted, gains, playing, paused, audioRef, updateTimeoutRef,
                 timers, edits, audios, nextOp, opBudget, autoTimer, burst, stopped>>
  /\ UNCHANGED <<jobVars, appVars, calc>>

\* n consecutive runs of the fadeInterval callback with no other event in
\* between: every run overwrites the volumes, so the last one decides them
FadeRun(i, n) ==
  LET o == ops[i]
      step == o.step + n
      newVolume == Min(step, steps)
      oldVolumeNew == Max(steps - step, 0)
      A1 == [audios EXCEPT ![i].vol = newVolume]
      A2 == IF o.old # i /\ ~A1[o.old].paused
            THEN [A1 EXCEPT ![o.old].vol = oldVolumeNew] ELSE A1
  IN
  /\ o.kind = "update" /\ o.pc = "fade"
  /\ n >= 1 /\ o.step + n <= steps
  /\ IF step >= steps
     THEN Leave([PauseIn(A2, o.old) EXCEPT ![o.old].vol = o.oldVol,
                                           ![i].vol = steps],
                [AbortIn(ops, A2, o.old) EXCEPT ![i] = Finish(o, "ok")], i)
     ELSE Leave(A2, [ops EXCEPT ![i].step = step], audioRef)
  /\ UNCHANGED <<mounted, gains, playing, paused, updateTimeoutRef, timers,
                 edits, nextOp, opBudget, autoTimer, burst, stopped>>
  /\ UNCHANGED <<jobVars, appVars, calc>>

\* the interval callbacks of a crossfade, FadeGrain at a time
FadeStep(i) == FadeRun(i, Min(FadeGrain, steps - ops[i].step))

\* ---- pauseMix / resumeMix / stopMix, as offered by the buttons ----
pauseMix ==
  /\ mounted /\ playing /\ ~paused
  /\ audioRef # 0
  /\ Leave(PauseIn(audios, audioRef), AbortIn(ops, audios, audioRef), audioRef)
  /\ paused' = TRUE
  /\ UNCHANGED <<mounted, gains, playing, updateTimeoutRef, timers, edits,
                 nextOp, opBudget, autoTimer, burst, stopped>>
  /\ UNCHANGED <<jobVars, appVars, calc>>

resumeMix ==
  /\ mounted /\ paused
  /\ audioRef # 0
  /\ Leave(PlayIn(audios, audioRef), ops, audioRef)
  /\ paused' = FALSE
  /\ UNCHANGED <<mounted, gains, playing, updateTimeoutRef, timers, edits,
                 nextOp, opBudget, autoTimer, burst, stopped>>
  /\ UNCHANGED <<jobVars, appVars, calc>>

\* stopMix as it would be without setPaused(false)
stopMixKeepPaused ==
  /\ mounted /\ playing
  /\ audioRef # 0
  /\ Leave([PauseIn(audios, audioRef) EXCEPT ![audioRef].pos = 0],
           AbortIn(ops, audios, audioRef), audioRef)
  /\ playing' = FALSE
  /\ paused' = paused
  /\ stopped' = \A i \in OpIds : ~(ops[i].kind = "play" /\ ~Done(ops[i]))
  /\ UNCHANGED <<mounted, gains, updateTimeoutRef, timers, edits, nextOp,
                 opBudget, autoTimer, burst>>
  /\ UNCHANGED <<jobVars, appVars, calc>>

stopMix ==
  /\ mounted /\ playing
  /\ audioRef # 0
  /\ Leave([PauseIn(audios, audioRef) EXCEPT ![audioRef].pos = 0],
           AbortIn(ops, audios, audioRef), audioRef)
  /\ playing' = FALSE
  /\ paused' = FALSE
  /\ stopped' = \A i \in OpIds : ~(ops[i].kind = "play" /\ ~Done(ops[i]))
  /\ UNCHANGED <<mounted, gains, updateTimeoutRef, timers, edits, nextOp,
                 opBudget, autoTimer, burst>>
  /\ UNCHANGED <<jobVars, appVars, calc>>

\* ---- the cleanup of the unmount effect ----
clearInterval(I, id) == I \ {id}

\* the Mixer leaves the page: the cleanup runs, the state of the instance stays
\* with the callbacks that still refer to it
Unmounting ==
  /\ mounted' = FALSE
  /\ timers' = clearTimeout(timers, updateTimeoutRef)
  /\ intervals' = clearInterval(intervals, progressIntervalRef)
  /\ autoTimer' = NoTimer
  /\ UNCHANGED <<gains, playing, paused, audioRef, updateTimeoutRef, edits,
                 audios, ops, nextOp, opBudget, burst, stopped>>
  /\ UNCHANGED <<file, audioFeatures, separating, progress, progressIntervalRef,
                 uploads, nextUpload, upBudget, polls, pollCount, job, alerts,
                 terminalSeen>>

\* the My Songs tab is clicked while the Mixer is shown
Unmount ==
  /\ mounted
  /\ tab' = "mysongs"
  /\ userModelProp' = userModelRef
  /\ Unmounting
  /\ UNCHANGED <<user, songsByUser, userModelRef, models, localStorage, fitCount,
                 hist, calc, mixerGains, autoPlayMix>>

\* ---- 100 ms pass: timers count down, streams that play advance, a stream
\* that reaches its end pauses and fires onended.  Due timeouts and settled
\* promises run before more time passes. ----
Advances(a) == audios[a].made /\ ~audios[a].paused /\ audios[a].ready

Tick ==
  LET ended == {a \in OpIds : Advances(a) /\ audios[a].pos + 1 >= Duration}
      A1 == [a \in OpIds |->
               IF Advances(a)
               THEN [audios[a] EXCEPT !.pos = Min(audios[a].pos + 1, Duration),
                                      !.paused = a \in ended]
               ELSE audios[a]]
      O1 == [i \in OpIds |->
               IF ops[i].fb > 0 THEN [ops[i] EXCEPT !.fb = ops[i].fb - 1] ELSE ops[i]]
  IN
  /\ \A t \in timers : t.left > 0
  /\ \A i \in OpIds : ops[i].fb # 0
  /\ \A i \in OpIds : ops[i].pc # "playrej" /\ ~(ops[i].pc = "playwait" /\ audios[i].ready)
  /\ timers' = {[t EXCEPT !.left = t.left - 1] : t \in timers}
  /\ Leave(A1, O1, audioRef)
  /\ burst' = [burst EXCEPT !.age = Min(burst.age + 1, DebounceTicks)]
  /\ IF ended # {} THEN SetFlags(FALSE, FALSE) ELSE UNCHANGED <<playing, paused>>
  /\ UNCHANGED <<mounted, gains, updateTimeoutRef, edits, nextOp, opBudget, autoTimer, stopped>>
  /\ UNCHANGED <<jobVars, appVars, calc>>

Next ==
  \/ \E e \in SliderEdits : HandleChange(e[1], e[2])
  \/ \E id \in 1..MaxEdits : DebounceFire(id)
  \/ playMix
  \/ \E i \in OpIds : PlayRenderFailed(i)
  \/ \E i \in OpIds : PlayRenderOk(i)
  \/ \E i \in OpIds : PlayDeviceRejected(i)
  \/ \E i \in OpIds : PlayAborted(i)
  \/ \E a \in OpIds : AudioBuffered(a)
  \/ \E i \in OpIds : UpdateRenderFailed(i)
  \/ \E i \in OpIds : UpdateRenderOk(i)
  \/ \E i \in OpIds : UpdateLoadError(i)
  \/ \E i \in OpIds : CanPlayThrough(i)
  \/ \E i \in OpIds : FallbackFire(i)
  \/ \E i \in OpIds : FadeStart(i)
  \/ \E i \in OpIds : FadeStep(i)
  \/ pauseMix
  \/ resumeMix
  \/ stopMix
  \/ Unmount
  \/ Tick

Spec == Init /\ [][Next]_vars

\* the same program when the run sends at most FewOps render requests
InitFew == InitWith(FewOps)
SpecFew == InitFew /\ [][Next]_vars

TypeOK ==
  /\ mounted \in BOOLEAN /\ playing \in BOOLEAN /\ paused \in BOOLEAN
  /\ audioRef \in 0..MaxOps
  /\ nextOp \in 0..opBudget
  /\ \A t \in timers : t.left \in 0..DebounceTicks
  /\ \A a \in OpIds : audios[a].pos \in 0..Duration /\ audios[a].vol \in 0..steps

\* ---- vocabulary of the properties ----
Audible == {a \in OpIds : Unpaused(a)}
Sounding == {a \in OpIds : Advances(a) /\ audios[a].vol > 0}
Running(i) == ops[i].kind # "none" /\ ~Done(ops[i])
Crossfading(i) == ops[i].kind = "update" /\ ops[i].pc \in {"playwait", "fade"}
Quiescent == timers = {} /\ \A i \in OpIds : ~Running(i)

\* C1: every live render request is sent a full quiet period (DebounceTicks)
\* after the last live slider edit and carries the gains as they stood after
\* that edit, and at most one is sent after it; so a burst of edits that
\* follow each other within the quiet period leads to at most one request.
C1_DebouncedLiveUpdate == burst.good /\ burst.sent <= 1

\* a burst of two edits has led to its one render request
C1_Witness ==
  /\ burst.n >= 2 /\ burst.sent = 1
  /\ \E i \in OpIds : ops[i].kind = "update" /\ ops[i].g = burst.g /\ ops[i].g = gains

\* C2: of two live updates that both handed over, the one whose render request
\* was sent first is never the live reference.
C2_StaleRenderNeverWins ==
  \A i \in OpIds, j \in OpIds :
     ( /\ i < j
       /\ ops[i].kind = "update" /\ ops[i].pc = "ok"
       /\ ops[j].kind = "update" /\ ops[j].pc = "ok" )
     => audioRef # i

\* C3: while no crossfade is in progress at most one stream is un-paused, and
\* once every live update has finished the only un-paused stream is the live
\* reference.
C3_OneAudible ==
  /\ (\A i \in OpIds : ~Crossfading(i)) => Cardinality(Audible) <= 1
  /\ (\A i \in OpIds : ops[i].kind = "update" => Done(ops[i]))
        => Audible \subseteq {audioRef}

\* C4: after the Mixer is unmounted no stream is playing and no debounce
\* timer is pending.
C4_TeardownCancels == ~mounted => (Sounding = {} /\ timers = {})

\* a step in which a live update fails: the render request fails, the new
\* stream fails to load, or newAudio.play() is rejected in the handover
UpdateFails(i) ==
  /\ ops[i].kind = "update"
  /\ \/ ops[i].pc \in {"fetch", "load"} /\ ops'[i].pc = "failed"
     \/ ops[i].pc = "load" /\ ops[i].wasPlaying /\ ops'[i].pc = "ok"

\* C5: a step in which a live update fails leaves the live reference, its
\* paused state and volume, and the playing / paused flags as they were.
C5_FailedUpdateNoEffect ==
  [][\A i \in OpIds : UpdateFails(i) =>
        /\ audioRef' = audioRef
        /\ audios'[audioRef].paused = audios[audioRef].paused
        /\ audios'[audioRef].vol = audios[audioRef].vol
        /\ playing' = playing /\ paused' = paused]_vars

\* a step in which handleCanPlay of live update i runs
HandoverStarts(i) ==
  /\ ops[i].kind = "update" /\ ops[i].pc = "load"
  /\ ops'[i].pc \in {"playwait", "ok"}

\* C6: when a handover starts while the old stream plays, the new stream is
\* positioned at the old stream's position of that moment, clamped to the new
\* stream's duration.
C6_HandoverAligned ==
  [][\A i \in OpIds : HandoverStarts(i) /\ ops[i].old \in Sounding =>
        audios'[i].pos = Min(audios[ops[i].old].pos, Duration)]_vars

\* C7: in a quiescent state every audible stream was rendered with the
\* current gains.
C7_AudibleMatchesGains == Quiescent => \A a \in Sounding : ops[a].g = gains

\* C8: from a stop() that found no play request in flight until the next
\* play request, no stream is audible and both flags are false.
C8_StopEndsMix == stopped => (Sounding = {} /\ ~playing /\ ~paused)

\* the steps of playMix call i
PlayRequested(i) == ops[i].kind = "none" /\ ops'[i].kind = "play"
PlayStarts(i) == ops[i].kind = "play" /\ ops[i].pc = "fetch" /\ ops'[i].pc = "playwait"
PlayResolves(i) == ops[i].kind = "play" /\ ops[i].pc = "playwait" /\ ops'[i].pc = "ok"
PlayFails(i) == ops[i].kind = "play" /\ ops[i].pc = "fetch" /\ ops'[i].pc = "failed"

C10_FailedPlayNothingPlaying ==
  [][\A i \in OpIds : PlayFails(i) /\ mounted =>
        /\ ~playing' /\ ~paused'
        /\ Sounding' = {}]_vars

(***************************************************************************)
(* The separation job tracker of the Mixer: handleUpload, the polling       *)
(* interval and pollProgress, with the separation service as the Mixer      *)
(* sees it.  An interval has the index of the handleUpload call that set    *)
(* it.  The interval and the network are not timed: the interval may fire   *)
(* and a response may arrive at any moment.                                 *)
(***************************************************************************)
mixVars == <<mounted, gains, playing, paused, audioRef, updateTimeoutRef, timers,
             edits, audios, ops, nextOp, opBudget, autoTimer, burst, stopped>>

\* setSeparating and setProgress of an unmounted component do nothing
SetTracker(s, p) ==
  IF mounted THEN separating' = s /\ progress' = p
  ELSE UNCHANGED <<separating, progress>>

\* ---- JavaScript numbers ----
\* Numbers are counted in thousandths unless said otherwise.  NaN stands for
\* the number NaN; it is outside the range of every other number here
NaN == -1000000000

\* a > b in JavaScript: false when an operand is NaN
GT(a, b) == a # NaN /\ b # NaN /\ a > b

\* Math.min, Math.max: NaN when an operand is NaN
MathMin(a, b) == IF a = NaN \/ b = NaN THEN NaN ELSE Min(a, b)
MathMax(a, b) == IF a = NaN \/ b = NaN THEN NaN ELSE Max(a, b)

\* Math.floor in the place of Math.round
roundDown(t) == IF t = NaN THEN NaN ELSE t \div 1000

\* Math.round of a number in thousandths: the nearest integer, halves up
round(t) == IF t = NaN THEN NaN ELSE (t + 500) \div 1000

\* v * 18 - 6 of predict, in thousandths
Scaled(v) == IF v = NaN THEN NaN ELSE v * 18 - 6000

\* one gain of predict: Math.round(v * 18 - 6), then
\* Math.max(-24, Math.min(12, .)); v is an output of the network
Gain(v) == MathMax(-24, MathMin(12, round(Scaled(v))))

\* the formula of predict
predict(values) == [c \in channels |-> Gain(values[c])]

\* the outputs of the network that a run sees (tanh: within [-1, 1])
Outputs == {[c \in channels |-> IF c = "vocals" THEN 1000 ELSE -1000]}

\* ---- handleUpload(e), up to `await extractAudioFeatures(file)` ----
handleUpload(f) ==
  /\ mounted
  /\ nextUpload < upBudget
  /\ nextUpload' = nextUpload + 1
  /\ file' = f
  /\ uploads' = [uploads EXCEPT ![nextUpload + 1] =
         [pc |-> "extract", f |-> f,
          prev |-> [file |-> file, gains |-> gains, audioFeatures |-> audioFeatures]]]
  /\ UNCHANGED mixVars
  /\ UNCHANGED <<upBudget, audioFeatures, separating, progress, progressIntervalRef,
                 intervals, polls, pollCount, job, alerts, terminalSeen>>
  /\ UNCHANGED <<appVars, calc>>

\* handleUpload after handleFileSelect: setSeparating(true), setProgress(0)
\* and the fetch of /start_separation
Submit(i) ==
  /\ uploads' = [uploads EXCEPT ![i].pc = "submit"]
  /\ SetTracker(TRUE, 0)

\* extractAudioFeatures settles: with the features, or it rejects and the
\* catch block runs; then predict is awaited or handleUpload goes on
ExtractDone(i) ==
  LET f == uploads[i].f
      predicts == /\ f.feat # 0 /\ userModelProp # 0
                  /\ models[userModelProp].isInitialized
  IN
  /\ uploads[i].pc = "extract"
  /\ audioFeatures' = IF mounted /\ f.feat # 0 THEN f.feat ELSE audioFeatures
  /\ IF predicts
     THEN /\ uploads' = [uploads EXCEPT ![i].pc = "predict"]
          /\ UNCHANGED <<separating, progress>>
     ELSE Submit(i)
  /\ UNCHANGED mixVars
  /\ UNCHANGED <<upBudget, file, progressIntervalRef, intervals, nextUpload, polls,
                 pollCount, job, alerts, terminalSeen>>
  /\ UNCHANGED <<appVars, calc>>

\* handleFileSelect as it would be without setGains(predicted)
PredictDoneKeep(i, values) ==
  /\ uploads[i].pc = "predict"
  /\ gains' = gains
  /\ Submit(i)
  /\ UNCHANGED <<mounted, playing, paused, audioRef, updateTimeoutRef, timers,
                 edits, audios, ops, nextOp, opBudget, autoTimer, burst, stopped>>
  /\ UNCHANGED <<upBudget, file, audioFeatures, progressIntervalRef, intervals, nextUpload,
                 polls, pollCount, job, alerts, terminalSeen>>
  /\ UNCHANGED <<appVars, calc>>

\* userModel.predict resolves: setGains(predicted), then handleUpload goes on
PredictDone(i, values) ==
  /\ uploads[i].pc = "predict"
  /\ gains' = IF mounted THEN predict(values) ELSE gains
  /\ Submit(i)
  /\ UNCHANGED <<mounted, playing, paused, audioRef, updateTimeoutRef, timers,
                 edits, audios, ops, nextOp, opBudget, autoTimer, burst, stopped>>
  /\ UNCHANGED <<upBudget, file, audioFeatures, progressIntervalRef, intervals, nextUpload,
                 polls, pollCount, job, alerts, terminalSeen>>
  /\ UNCHANGED <<appVars, calc>>

\* the service takes the file and begins a new job
ServiceAccepts(i) ==
  /\ uploads[i].pc = "submit"
  /\ uploads' = [uploads EXCEPT ![i].pc = "accepted"]
  /\ job' = [status |-> "processing", progress |-> 0]
  /\ UNCHANGED mixVars
  /\ UNCHANGED <<upBudget, file, audioFeatures, separating, progress, progressIntervalRef,
                 intervals, nextUpload, polls, pollCount, alerts,
                 terminalSeen>>
  /\ UNCHANGED <<appVars, calc>>

\* the response is ok with status "processing": the existing interval is
\* cleared and the polling interval is set
SubmitAccepted(i) ==
  /\ uploads[i].pc = "accepted"
  /\ uploads' = [uploads EXCEPT ![i] = [NoUpload EXCEPT !.pc = "done"]]
  /\ intervals' = clearInterval(intervals, progressIntervalRef) \cup {i}
  /\ progressIntervalRef' = i
  /\ terminalSeen' = FALSE
  /\ UNCHANGED mixVars
  /\ UNCHANGED <<upBudget, file, audioFeatures, separating, progress, nextUpload, polls,
                 pollCount, job, alerts>>
  /\ UNCHANGED <<appVars, calc>>

\* the service rejects the upload, cannot be reached, or answers with another
\* status: the catch block
SubmitFailed(i) ==
  /\ uploads[i].pc \in {"submit", "accepted"}
  /\ uploads' = [uploads EXCEPT ![i] = [NoUpload EXCEPT !.pc = "failed"]]
  /\ alerts' = [alerts EXCEPT ![i].start = alerts[i].start + 1]
  /\ SetTracker(FALSE, 0)
  /\ UNCHANGED mixVars
  /\ UNCHANGED <<upBudget, file, audioFeatures, progressIntervalRef, intervals, nextUpload,
                 polls, pollCount, job, terminalSeen>>
  /\ UNCHANGED <<appVars, calc>>

\* ---- the interval callback: pollProgress(), up to the response; the
\* service answers the query with the state of its job at once, the response
\* may be late ----
PollRecs == [by : UploadIds,
             data : [status : {"processing", "completed", "error"},
                     progress : ProgressLevels]]

IntervalFire(i) ==
  /\ i \in intervals
  /\ pollCount < MaxPolls
  /\ pollCount' = pollCount + 1
  /\ polls' = polls (+) SetToBag({[by |-> i, data |-> job]})
  /\ UNCHANGED mixVars
  /\ UNCHANGED <<upBudget, file, audioFeatures, separating, progress, progressIntervalRef,
                 intervals, uploads, nextUpload, job, alerts, terminalSeen>>
  /\ UNCHANGED <<appVars, calc>>

\* pollProgress as it would be if a failed poll stopped the polling
PollFailedStops(p) ==
  /\ BagIn(p, polls)
  /\ polls' = polls (-) SetToBag({p})
  /\ intervals' = clearInterval(intervals, progressIntervalRef)
  /\ SetTracker(FALSE, progress)
  /\ UNCHANGED mixVars
  /\ UNCHANGED <<upBudget, file, audioFeatures, progressIntervalRef, uploads, nextUpload,
                 pollCount, job, alerts, terminalSeen>>
  /\ hist' = [NoHist EXCEPT !.act = "pollFailed"]
  /\ UNCHANGED <<user, tab, songsByUser, userModelRef, userModelProp, models,
                 localStorage, fitCount, calc, mixerGains, autoPlayMix>>

\* pollProgress: !resp.ok, or the fetch or resp.json() throws; it returns true
PollFailed(p) ==
  /\ BagIn(p, polls)
  /\ polls' = polls (-) SetToBag({p})
  /\ UNCHANGED mixVars
  /\ UNCHANGED <<upBudget, file, audioFeatures, separating, progress, progressIntervalRef,
                 intervals, uploads, nextUpload, pollCount, job, alerts,
                 terminalSeen>>
  /\ hist' = [NoHist EXCEPT !.act = "pollFailed"]
  /\ UNCHANGED <<user, tab, songsByUser, userModelRef, userModelProp, models,
                 localStorage, fitCount, calc, mixerGains, autoPlayMix>>

\* the status is terminal for pollProgress
Terminal(data) ==
  \/ data.status = "completed" /\ round(data.progress * 100) >= 100
  \/ data.status = "error"

\* setTimeout(() => alert(..), 100): nothing cancels the timeout, the alert
\* counts as raised when it is scheduled
Alert(A, i, data) ==
  IF data.status = "completed"
  THEN [A EXCEPT ![i].complete = @ + 1]
  ELSE [A EXCEPT ![i].error = @ + 1]

\* pollProgress as it would be without clearInterval in its terminal branches
\* and in the interval callback
PollResponseNoClear(p) ==
  LET progressValue == round(p.data.progress * 100) IN
  /\ BagIn(p, polls)
  /\ polls' = polls (-) SetToBag({p})
  /\ IF Terminal(p.data)
     THEN /\ UNCHANGED <<intervals, progressIntervalRef>>
          /\ SetTracker(FALSE, IF p.data.status = "completed" THEN 100
                                                             ELSE progressValue)
          /\ alerts' = Alert(alerts, p.by, p.data)
          /\ terminalSeen' = TRUE
     ELSE /\ progress' = IF mounted THEN progressValue ELSE progress
          /\ UNCHANGED <<separating, intervals, progressIntervalRef, alerts,
                         terminalSeen>>
  /\ UNCHANGED mixVars
  /\ UNCHANGED <<upBudget, file, audioFeatures, uploads, nextUpload, pollCount, job>>
  /\ hist' = [NoHist EXCEPT !.act = "pollResponse"]
  /\ UNCHANGED <<user, tab, songsByUser, userModelRef, userModelProp, models,
                 localStorage, fitCount, calc, mixerGains, autoPlayMix>>

\* pollProgress after an ok response, and the rest of the interval callback
PollResponse(p) ==
  LET progressValue == round(p.data.progress * 100) IN
  /\ BagIn(p, polls)
  /\ polls' = polls (-) SetToBag({p})
  /\ IF Terminal(p.data)
     THEN /\ intervals' = clearInterval(intervals, progressIntervalRef)
          /\ progressIntervalRef' = 0
          /\ SetTracker(FALSE, IF p.data.status = "completed" THEN 100
                                                             ELSE progressValue)
          /\ alerts' = Alert(alerts, p.by, p.data)
          /\ terminalSeen' = TRUE
     ELSE /\ progress' = IF mounted THEN progressValue ELSE progress
          /\ UNCHANGED <<separating, intervals, progressIntervalRef, alerts,
                         terminalSeen>>
  /\ UNCHANGED mixVars
  /\ UNCHANGED <<upBudget, file, audioFeatures, uploads, nextUpload, pollCount, job>>
  /\ hist' = [NoHist EXCEPT !.act = "pollResponse"]
  /\ UNCHANGED <<user, tab, songsByUser, userModelRef, userModelProp, models,
                 localStorage, fitCount, calc, mixerGains, autoPlayMix>>

\* ---- the separation service works on its job ----
ServiceProgress(l) ==
  /\ job.status = "processing"
  /\ l > job.progress
  /\ job' = [progress |-> l,
             status |-> IF l >= 1000 THEN "completed" ELSE "processing"]
  /\ UNCHANGED mixVars
  /\ UNCHANGED <<upBudget, file, audioFeatures, separating, progress, progressIntervalRef,
                 intervals, uploads, nextUpload, polls, pollCount, alerts,
                 terminalSeen>>
  /\ UNCHANGED <<appVars, calc>>

ServiceError ==
  /\ job.status = "processing"
  /\ job' = [job EXCEPT !.status = "error"]
  /\ UNCHANGED mixVars
  /\ UNCHANGED <<upBudget, file, audioFeatures, separating, progress, progressIntervalRef,
                 intervals, uploads, nextUpload, polls, pollCount, alerts,
                 terminalSeen>>
  /\ UNCHANGED <<appVars, calc>>

NextJob ==
  \/ \E f \in Files : handleUpload(f)
  \/ \E i \in UploadIds : ExtractDone(i)
  \/ \E i \in UploadIds, v \in Outputs : PredictDone(i, v)
  \/ \E i \in UploadIds : ServiceAccepts(i)
  \/ \E i \in UploadIds : SubmitAccepted(i)
  \/ \E i \in UploadIds : SubmitFailed(i)
  \/ \E i \in UploadIds : IntervalFire(i)
  \/ \E p \in PollRecs : PollFailed(p)
  \/ \E p \in PollRecs : PollResponse(p)
  \/ \E l \in ProgressLevels : ServiceProgress(l)
  \/ ServiceError
  \/ Unmount

\* the Mixer of a user whose model the Mixer may or may not have got as prop
InitJob == \E prop \in {0, 1} : MixerInit(0, MaxUploads) /\ LoggedIn("Alex", prop)
SpecJob == InitJob /\ [][NextJob]_vars

\* the same when the run makes at most FewUploads uploads
InitJobFew == \E prop \in {0, 1} : MixerInit(0, FewUploads) /\ LoggedIn("Alex", prop)
SpecJobFew == InitJobFew /\ [][NextJob]_vars

\* ---- properties of the tracker ----
\* C11: for every job at most one completion or error notification is raised.
C11_TerminalReportedOnce ==
  \A i \in UploadIds : alerts[i].complete + alerts[i].error <= 1

\* C12: from the moment a terminal poll response has been processed until a
\* new upload sets a new polling interval, no interval is set and the handle
\* is null, so no status query is issued.
C12_NoPollAfterTerminal ==
  terminalSeen => (intervals = {} /\ progressIntervalRef = 0)

\* a terminal response has been processed while another poll was outstanding
C12_Witness ==
  /\ terminalSeen /\ ~separating
  /\ intervals = {} /\ progressIntervalRef = 0
  /\ polls # EmptyBag

\* a step in which pollProgress processes a response
PollStep == polls' # polls /\ pollCount' = pollCount

\* C13: while the tracker is separating, a poll response never lowers the
\* progress shown.
C13_ProgressMonotone ==
  [][PollStep /\ separating /\ separating' => progress' >= progress]_vars

\* C14: a poll that fails changes neither separating nor progress, raises no
\* alert, and leaves the polling interval set.
C14_TransientPollAbsorbed ==
  [][PollStep /\ hist'.act = "pollFailed" =>
        /\ separating' = separating /\ progress' = progress
        /\ alerts' = alerts
        /\ intervals' = intervals /\ progressIntervalRef' = progressIntervalRef]_vars

\* a poll has failed in the middle of a job: the tracker still separates at
\* 50 percent and the interval is set
C14_Witness ==
  /\ hist.act = "pollFailed"
  /\ separating /\ progress = 50
  /\ intervals # {} /\ progressIntervalRef \in intervals

\* a step in which the submission of upload i fails
SubmitFails(i) == uploads[i].pc \in {"submit", "accepted"} /\ uploads'[i].pc = "failed"

\* C15: when a submission fails the error is shown, the tracker is not
\* separating and at progress 0, no interval is started, and file, gains and
\* audioFeatures are what they were before the upload attempt.
C15_FailedSubmissionUntouched ==
  [][\A i \in UploadIds : SubmitFails(i) /\ mounted =>
        /\ alerts'[i].start = alerts[i].start + 1
        /\ ~separating' /\ progress' = 0
        /\ intervals' = intervals
        /\ file' = uploads[i].prev.file
        /\ gains' = uploads[i].prev.gains
        /\ audioFeatures' = uploads[i].prev.audioFeatures]_vars

(***************************************************************************)
(* The App component (src/unnamed/part_001) with the preference model       *)
(* (src/unnamed/part_002): selecting and switching users, the tabs, saving  *)
(* a mix and deleting a song.  A model.fit call is an asynchronous          *)
(* operation of its UserPreferenceModel object; a handleSaveMix call that   *)
(* awaits train is kept with the fit it awaits.                             *)
(***************************************************************************)
\* ---- UserPreferenceModel ----
\* createModel(): random initial weights
createModel(seed) == [seed |-> seed, fits |-> <<>>]

\* the feature id of a clip shorter than one window of 1024 samples: its
\* spectral flux is 0 / 0, so its feature vector holds NaN
ShortFeat == 2

\* the weights after a fit on NaN: every weight is NaN; JSON.stringify writes
\* a NaN as null, so the record also stands for the stored item of such
\* weights
NaNWeights == [seed |-> NaN, fits |-> <<>>]

\* the weights tf.tensor makes of an item whose numbers are null: all 0
ZeroWeights == [seed |-> -1, fits |-> <<>>]

\* loadWeights(): null without a stored item, else the stored weights
loadWeights(S, userId) ==
  IF S[userId] = <<>> THEN NoWeights
  ELSE IF S[userId][1] = NaNWeights THEN ZeroWeights
  ELSE S[userId][1]

\* saveWeights(): the weights as the item of this user
saveWeights(S, o) == IF o.model = NoWeights THEN S ELSE [S EXCEPT ![o.userId] = <<o.model>>]

\* initialize() as it would be without `if (this.isInitialized) return`
initializeAgain(o, S, seed) ==
  [o EXCEPT !.isInitialized = TRUE,
            !.model = IF loadWeights(S, o.userId) # NoWeights
                      THEN loadWeights(S, o.userId) ELSE createModel(seed)]

\* initialize() of object o; seed: the weights createModel draws
initialize(o, S, seed) ==
  IF o.isInitialized THEN o
  ELSE [o EXCEPT !.isInitialized = TRUE,
                 !.model = IF loadWeights(S, o.userId) # NoWeights
                           THEN loadWeights(S, o.userId) ELSE createModel(seed)]

\* a training example: the features and the gains as (dB + 6) / 18, in 18ths
Example(features, g) ==
  [x |-> features, y |-> [c \in channels |-> IF g[c] = NaN THEN NaN ELSE g[c] + 6]]

\* an example with a NaN in it: the loss and every gradient of its fit are NaN
HasNaN(e) == e.x = <<ShortFeat>> \/ \E c \in channels : e.y[c] = NaN

\* model.fit(...) is called on object o: it throws while another fit of the
\* object is going on, else the fit starts
Fitting(o, kind, batch, mix, u) ==
  IF o.fit # NoFit THEN o
  ELSE [o EXCEPT !.fit = [kind |-> kind, batch |-> batch, mix |-> mix, user |-> u]]

\* train(features, actualGains), up to `await this.model.fit`
train(o, S, seed, features, actualGains, mix, u) ==
  Fitting(initialize(o, S, seed), "train", <<Example(features, actualGains)>>, mix, u)

\* batchTrain as it would be without the filter
validSongsAll(songs) == songs

\* songs.filter(song => song.features && song.gains)
validSongs(songs) ==
  SelectSeq(songs, LAMBDA song : song.features # <<>> /\ song.gains # NoGains)

\* batchTrain(songs), up to `await this.model.fit`
batchTrain(o, S, seed, songs) ==
  LET o1 == initialize(o, S, seed)
      valid == validSongs(songs)
  IN IF valid = <<>> THEN o1
     ELSE Fitting(o1, "batch",
                  [k \in 1..Len(valid) |-> Example(valid[k].features, valid[k].gains)],
                  NoMix, NoUser)

\* the fit of object o has resolved: the weights are trained on the batch
Fitted(o) ==
  [o EXCEPT !.fit = NoFit,
            !.model = IF @ = NaNWeights \/ \E k \in 1..Len(o.fit.batch) : HasNaN(o.fit.batch[k])
                      THEN NaNWeights
                      ELSE [@ EXCEPT !.fits = Append(@,
                              [batch |-> o.fit.batch,
                               epochs |-> IF o.fit.kind = "train" THEN 5 ELSE 10])]]

\* ---- Mixer.handleSave ----
channelList == <<"vocals", "drums", "bass", "other">>

\* file.name.replace(/\.[^/.]+$/, "")
Title(name) ==
  LET dots == {k \in 1..Len(name) : name[k] = "."}
      last == CHOOSE k \in dots : \A j \in dots : j <= k
  IN IF dots # {} /\ last < Len(name) /\ \A j \in (last + 1)..Len(name) : name[j] # "/"
     THEN SubSeq(name, 1, last - 1) ELSE name

\* fmt(db), without the unit
fmt(db) == <<IF db > 0 THEN "+" ELSE "", db>>

\* channels.map(c => label + ": " + fmt(gains[c.key])).join(", ")
Details(g) == [k \in 1..Len(channelList) |-> <<channelList[k], fmt(g[channelList[k]])>>]

\* the mix handleSave hands to onSave; the feature vector is a function of
\* audioFeatures alone
Mix(f, g, a) ==
  [title |-> Title(f.name), artist |-> "Custom Mix", details |-> Details(g),
   gains |-> g, features |-> IF a # 0 THEN <<a>> ELSE <<>>]

\* ---- App ----
\* what React does with the Mixer when App renders for user u2 and tab t2.
\* A Mixer that is mounted is a new instance with the initial state; one that
\* is unmounted runs its cleanup and is discarded: the state of the instance
\* and the callbacks that still refer to it are not kept
FreshWith(m, initialGains, autoPlay) ==
  /\ mounted' = m
  /\ gains' = IF initialGains # NoGains THEN initialGains ELSE DefaultGains
  /\ autoTimer' = IF m /\ autoPlay THEN [set |-> TRUE, g |-> gains'] ELSE NoTimer
  /\ playing' = FALSE /\ paused' = FALSE
  /\ audioRef' = 0 /\ updateTimeoutRef' = 0
  /\ edits' = 0
  /\ file' = NoFile /\ audioFeatures' = 0
  /\ separating' = FALSE /\ progress' = 0
  /\ progressIntervalRef' = 0
  /\ uploads' = [i \in UploadIds |-> NoUpload]
  /\ nextUpload' = 0
  /\ timers' = clearTimeout(timers, updateTimeoutRef)
  /\ intervals' = clearInterval(intervals, progressIntervalRef)
  /\ UNCHANGED <<audios, ops, nextOp, opBudget, burst, stopped, upBudget, polls,
                 pollCount, job, alerts, terminalSeen>>

Fresh(m) == FreshWith(m, mixerGains, autoPlayMix)

Render(u2, t2) ==
  LET shown == u2 # NoUser /\ t2 = "mixer" IN
  IF mounted # shown THEN Fresh(shown) ELSE UNCHANGED <<mixVars, jobVars>>

\* a model object that nothing refers to and that is not fitting is garbage
Collect(M, ref, prop) ==
  [m \in ModelIds |-> IF m # ref /\ m # prop /\ M[m].fit = NoFit THEN NoModel ELSE M[m]]

\* the updater of setSongsByUser in handleSaveMix as it would be without the
\* duplicate check
SaveUpdaterNoCheck(prev, u, mix) ==
  [prev EXCEPT ![u] = Append(prev[u], mix)]

\* the updater of setSongsByUser in handleSaveMix
SaveUpdater(prev, u, mix) ==
  LET list == prev[u]
      duplicate == \E k \in 1..Len(list) :
                      list[k].title = mix.title /\ list[k].details = mix.details
  IN IF duplicate THEN prev ELSE [prev EXCEPT ![u] = Append(list, mix)]

\* handleSaveMix as it would be if the updater read the user who is selected
\* when it runs, not the user of the render that made the handler
SaveSongsOfSelected(u, mix, M) ==
  /\ songsByUser' = SaveUpdater(songsByUser, IF user = NoUser THEN u ELSE user, mix)
  /\ tab' = "mysongs"
  /\ userModelProp' = userModelRef
  /\ models' = Collect(M, userModelRef, userModelRef)
  /\ Render(user, "mysongs")

\* handleSaveMix after train: setSongsByUser(updater), setTab("mysongs")
SaveSongs(u, mix, M) ==
  /\ songsByUser' = SaveUpdater(songsByUser, u, mix)
  /\ tab' = "mysongs"
  /\ userModelProp' = userModelRef
  /\ models' = Collect(M, userModelRef, userModelRef)
  /\ Render(user, "mysongs")

\* the songs of user u and the saves of u that wait for train
Coming(u) ==
  Len(songsByUser[u]) + Cardinality({m \in ModelIds : models[m].fit.user = u})

\* a user is selected on the landing page: setUser, setTab("mixer"); the
\* Mixer is rendered with the model of that moment; then the effect creates
\* and initializes the model of the user (the random weights of the m-th
\* object are called m)
onSelectUser(u) ==
  LET M == Collect(models, 0, userModelRef)
      m == userModelRef + 1
  IN
  /\ user = NoUser
  /\ m \in ModelIds
  /\ user' = u
  /\ tab' = "mixer"
  /\ userModelProp' = userModelRef
  /\ userModelRef' = m
  /\ models' = [M EXCEPT ![m] = initialize(NewModel(u), localStorage, m)]
  /\ hist' = NoHist
  /\ Render(u, "mixer")
  /\ UNCHANGED <<songsByUser, localStorage, fitCount, calc, mixerGains, autoPlayMix>>

\* the Switch User button: setUser(null), setTab("landing")
SwitchUser ==
  /\ user # NoUser
  /\ user' = NoUser
  /\ tab' = "landing"
  /\ userModelProp' = userModelRef
  /\ models' = Collect(models, userModelRef, userModelRef)
  /\ hist' = NoHist
  /\ Render(NoUser, "landing")
  /\ UNCHANGED <<songsByUser, userModelRef, localStorage, fitCount, calc, mixerGains, autoPlayMix>>

\* a tab button is clicked: setTab(t)
setTab(t) ==
  /\ user # NoUser /\ tab # t
  /\ tab' = t
  /\ userModelProp' = userModelRef
  /\ models' = Collect(models, userModelRef, userModelRef)
  /\ hist' = NoHist
  /\ Render(user, t)
  /\ UNCHANGED <<user, songsByUser, userModelRef, localStorage, fitCount, calc, mixerGains, autoPlayMix>>

\* ---- the Save Mix button: handleSave, and handleSaveMix up to the end or
\* up to `await model.fit` in train ----
handleSave ==
  LET mix == Mix(file, gains, audioFeatures)
      trains == userModelRef # 0 /\ mix.features # <<>> /\ mix.gains # NoGains
      o == train(models[userModelRef], localStorage, 1, mix.features, mix.gains,
                 mix, user)
      starts == trains /\ o.fit # models[userModelRef].fit
      list == songsByUser[user]
  IN
  /\ mounted /\ user # NoUser
  /\ file # NoFile
  /\ Coming(user) < MaxSongs
  /\ starts => fitCount < MaxFits
  /\ IF starts
     THEN /\ models' = [models EXCEPT ![userModelRef] = o]
          /\ fitCount' = fitCount + 1
          /\ hist' = [NoHist EXCEPT !.act = "save", !.call = "train"]
          /\ UNCHANGED <<songsByUser, tab, userModelProp, mixVars, jobVars>>
     ELSE /\ SaveSongs(user, mix, models)
          /\ hist' = [NoHist EXCEPT
                 !.act = "save",
                 !.call = IF trains THEN "train" ELSE "none",
                 !.outcome = IF SaveUpdater(songsByUser, user, mix) = songsByUser
                             THEN "duplicate" ELSE "accepted"]
          /\ UNCHANGED fitCount
  /\ UNCHANGED <<user, userModelRef, localStorage, calc, mixerGains, autoPlayMix>>

\* model.fit of object m resolves: saveWeights; after train, handleSaveMix
\* goes on for the user and the mix of its call
FitDone(m) ==
  LET o == Fitted(models[m])
      M == [models EXCEPT ![m] = o]
      fit == models[m].fit
  IN
  /\ models[m].fit # NoFit
  /\ localStorage' = saveWeights(localStorage, o)
  /\ IF fit.kind = "train" /\ fit.user # NoUser
     THEN /\ SaveSongs(fit.user, fit.mix, M)
          /\ hist' = [NoHist EXCEPT
                 !.act = "saved", !.m = m,
                 !.outcome = IF SaveUpdater(songsByUser, fit.user, fit.mix) = songsByUser
                             THEN "duplicate" ELSE "accepted"]
     ELSE /\ models' = Collect(M, userModelRef, userModelProp)
          /\ hist' = [NoHist EXCEPT !.act = "fitted", !.m = m]
          /\ UNCHANGED <<songsByUser, tab, userModelProp, mixVars, jobVars>>
  /\ UNCHANGED <<user, userModelRef, fitCount, calc, mixerGains, autoPlayMix>>

\* userSongs.filter((_, idx) => idx !== songIndex)
Without(list, songIndex) ==
  [k \in 1..(Len(list) - 1) |-> IF k - 1 < songIndex THEN list[k] ELSE list[k + 1]]

\* handleDeleteSong as it would be if it retrained also with no song left
handleDeleteSongAlways(songIndex) ==
  LET userSongs == songsByUser[user]
      updatedSongs == Without(userSongs, songIndex)
      retrains == /\ userModelRef # 0 /\ models[userModelRef].isInitialized
      o == batchTrain(models[userModelRef], localStorage, 1, updatedSongs)
      starts == retrains /\ o.fit # models[userModelRef].fit
  IN
  /\ user # NoUser /\ tab = "mysongs"
  /\ songIndex \in 0..(Len(userSongs) - 1)
  /\ starts => fitCount < MaxFits
  /\ songsByUser' = [songsByUser EXCEPT ![user] = updatedSongs]
  /\ models' = IF retrains THEN [models EXCEPT ![userModelRef] = o] ELSE models
  /\ fitCount' = IF starts THEN fitCount + 1 ELSE fitCount
  /\ userModelProp' = userModelRef
  /\ hist' = [NoHist EXCEPT !.act = "delete", !.idx = songIndex,
                            !.call = IF retrains THEN "batchTrain" ELSE "none",
                            !.songs = IF retrains THEN updatedSongs ELSE <<>>]
  /\ UNCHANGED <<user, tab, userModelRef, localStorage, mixVars, jobVars, calc, mixerGains, autoPlayMix>>

\* ---- the Delete button of song songIndex, confirmed: handleDeleteSong ----
handleDeleteSong(songIndex) ==
  LET userSongs == songsByUser[user]
      updatedSongs == Without(userSongs, songIndex)
      retrains == /\ userModelRef # 0 /\ models[userModelRef].isInitialized
                  /\ Len(updatedSongs) > 0
      o == batchTrain(models[userModelRef], localStorage, 1, updatedSongs)
      starts == retrains /\ o.fit # models[userModelRef].fit
  IN
  /\ user # NoUser /\ tab = "mysongs"
  /\ songIndex \in 0..(Len(userSongs) - 1)
  /\ starts => fitCount < MaxFits
  /\ songsByUser' = [songsByUser EXCEPT ![user] = updatedSongs]
  /\ models' = IF retrains THEN [models EXCEPT ![userModelRef] = o] ELSE models
  /\ fitCount' = IF starts THEN fitCount + 1 ELSE fitCount
  /\ userModelProp' = userModelRef
  /\ hist' = [NoHist EXCEPT !.act = "delete", !.idx = songIndex,
                            !.call = IF retrains THEN "batchTrain" ELSE "none",
                            !.songs = IF retrains THEN updatedSongs ELSE <<>>]
  /\ UNCHANGED <<user, tab, userModelRef, localStorage, mixVars, jobVars, calc, mixerGains, autoPlayMix>>

NextApp ==
  \/ \E u \in Users : onSelectUser(u)
  \/ SwitchUser
  \/ \E t \in {"mixer", "mysongs"} : setTab(t)
  \/ \E f \in Files : handleUpload(f)
  \/ \E i \in UploadIds : ExtractDone(i)
  \/ \E i \in UploadIds, v \in Outputs : PredictDone(i, v)
  \/ handleSave
  \/ \E m \in ModelIds : FitDone(m)
  \/ \E k \in 0..(MaxSongs - 1) : handleDeleteSong(k)

\* the App before a user is selected, with nothing stored; a Mixer session
\* takes one upload
InitApp ==
  /\ MixerInit(0, 1)
  /\ mounted = FALSE
  /\ user = NoUser
  /\ tab = "landing"
  /\ songsByUser = [v \in Users |-> <<>>]
  /\ userModelRef = 0
  /\ userModelProp = 0
  /\ models = [m \in ModelIds |-> NoModel]
  /\ localStorage = [v \in Users |-> <<>>]
  /\ fitCount = 0
  /\ mixerGains = NoGains
  /\ autoPlayMix = FALSE
  /\ hist = NoHist
  /\ calc = NoCalc

SpecApp == InitApp /\ [][NextApp]_vars

\* ---- properties of saving and deleting ----
SameSong(a, b) == a.title = b.title /\ a.details = b.details

NoDuplicateSongs ==
  \A u \in Users : \A j, k \in 1..Len(songsByUser[u]) :
     j # k => ~SameSong(songsByUser[u][j], songsByUser[u][k])

\* a handleSaveMix call for user u and mix reaches setSongsByUser in this
\* step: at once, or when the fit of its train resolves
SavesAtOnce(u, mix) ==
  /\ hist'.act = "save" /\ mounted /\ ~mounted'
  /\ u = user /\ mix = Mix(file, gains, audioFeatures)
SavesAfterTrain(u, mix) ==
  \E m \in ModelIds :
     /\ models[m].fit.kind = "train" /\ models'[m].fit.kind # "train"
     /\ u = models[m].fit.user /\ mix = models[m].fit.mix
Stored(u, mix) == \E k \in 1..Len(songsByUser[u]) : SameSong(songsByUser[u][k], mix)

\* C16: no song list ever holds two songs with the same title and the same
\* gain summary, and a save of a mix whose title and summary are in the list
\* of the user leaves the list as it is, also when the save waited for train
\* while a later save stored the mix.
C16_NoDuplicateSongs ==
  /\ []NoDuplicateSongs
  /\ [][\A u \in Users :
          /\ SavesAtOnce(u, Mix(file, gains, audioFeatures)) /\
                Stored(u, Mix(file, gains, audioFeatures)) =>
                   songsByUser'[u] = songsByUser[u]
          /\ \A m \in ModelIds :
                SavesAfterTrain(u, models[m].fit.mix) /\ Stored(u, models[m].fit.mix) =>
                   songsByUser'[u] = songsByUser[u]]_vars

\* a save that waited for train found its mix stored by a later save and was
\* rejected: the list holds the mix once
C16_Witness ==
  /\ hist.act = "saved" /\ hist.outcome = "duplicate"
  /\ \E u \in Users : Len(songsByUser[u]) = 1

\* a step in which a handleSaveMix call ends: at once, or after its train
SaveEnds ==
  \/ hist'.act = "save" /\ mounted /\ ~mounted'
  \/ \E m \in ModelIds : models[m].fit.kind = "train" /\ models'[m].fit.kind # "train"

\* C17: a save that is rejected as a duplicate has called no train and has
\* changed neither the parameters of a model nor the stored parameters.
C17_TrainOnlyAccepted ==
  [][SaveEnds /\ hist'.outcome = "duplicate" =>
        /\ hist'.call = "none"
        /\ \A m \in ModelIds : models[m].fit.kind # "train"
        /\ localStorage' = localStorage]_vars

\* a step of handleDeleteSong
DeleteStep == hist'.act = "delete" /\ songsByUser' # songsByUser

SongChoices ==
  {Mix([name |-> <<"a", ".", "m">>, feat |-> 1], DefaultGains, 1),
   Mix([name |-> <<"b", ".", "w">>, feat |-> 0], DefaultGains, 0),
   [Mix([name |-> <<"b", ".", "w">>, feat |-> 0], DefaultGains, 0) EXCEPT
       !.gains = NoGains]}
SongLists == {<<>>} \cup {<<a>> : a \in SongChoices}
                    \cup {<<a, b>> : a \in SongChoices, b \in SongChoices}

\* the result of a method call: the object, the count of fits started, and
\* the record of the call
Called(o) == [models EXCEPT ![1] = o]
Started(o) == IF o.fit # models[1].fit THEN fitCount + 1 ELSE fitCount
Record(act) == [NoHist EXCEPT !.act = act,
                              !.outcome = IF models[1].isInitialized THEN "again" ELSE "first"]

initializeCall(seed) ==
  /\ models' = Called(initialize(models[1], localStorage, seed))
  /\ hist' = Record("initialize")
  /\ UNCHANGED <<user, tab, songsByUser, userModelRef, userModelProp, localStorage,
                 fitCount, mixVars, jobVars, calc, mixerGains, autoPlayMix>>

\* predict(features): initialize() if needed, then the forward pass
predictCall(seed) ==
  /\ models' = Called(initialize(models[1], localStorage, seed))
  /\ hist' = Record("predict")
  /\ UNCHANGED <<user, tab, songsByUser, userModelRef, userModelProp, localStorage,
                 fitCount, mixVars, jobVars, calc, mixerGains, autoPlayMix>>

trainCall(seed, features, g) ==
  /\ models' = Called(train(models[1], localStorage, seed, features, g, NoMix, NoUser))
  /\ fitCount' = Started(models'[1])
  /\ fitCount' <= MaxFits
  /\ hist' = Record("train")
  /\ UNCHANGED <<user, tab, songsByUser, userModelRef, userModelProp, localStorage,
                 mixVars, jobVars, calc, mixerGains, autoPlayMix>>

batchTrainCall(seed, songs) ==
  /\ models' = Called(batchTrain(models[1], localStorage, seed, songs))
  /\ fitCount' = Started(models'[1])
  /\ fitCount' <= MaxFits
  /\ hist' = [Record("batchTrain") EXCEPT !.songs = songs]
  /\ UNCHANGED <<user, tab, songsByUser, userModelRef, userModelProp, localStorage,
                 mixVars, jobVars, calc, mixerGains, autoPlayMix>>

NextModel ==
  \/ \E seed \in Seeds : initializeCall(seed)
  \/ \E seed \in Seeds : predictCall(seed)
  \/ \E seed \in Seeds, a \in {1, ShortFeat},
        g \in {DefaultGains} \cup {predict(v) : v \in Outputs} :
        trainCall(seed, <<a>>, g)
  \/ \E seed \in Seeds, songs \in SongLists : batchTrainCall(seed, songs)
  \/ \E m \in ModelIds : FitDone(m)

\* a new object for user u; the store is empty or holds the weights an
\* earlier object of u saved after a train
InitModel ==
  /\ MixerInit(0, 0)
  /\ mounted = FALSE
  /\ user = NoUser
  /\ tab = "landing"
  /\ songsByUser = [v \in Users |-> <<>>]
  /\ userModelRef = 1
  /\ userModelProp = 0
  /\ \E u \in Users :
       /\ models = [m \in ModelIds |-> IF m = 1 THEN NewModel(u) ELSE NoModel]
       /\ \E S \in {<<>>, <<Fitted(Fitting([NewModel(u) EXCEPT !.model = createModel(1)],
                                            "train", <<Example(<<1>>, DefaultGains)>>,
                                            NoMix, NoUser)).model>>} :
             localStorage = [v \in Users |-> IF v = u THEN S ELSE <<>>]
  /\ fitCount = 0
  /\ mixerGains = NoGains
  /\ autoPlayMix = FALSE
  /\ hist = NoHist
  /\ calc = NoCalc

SpecModel == InitModel /\ [][NextModel]_vars

\* the songs of a list that carry both features and gains, in their order
Qualifying(songs) ==
  LET idx == {k \in 1..Len(songs) : songs[k].features # <<>> /\ songs[k].gains # NoGains}
      RECURSIVE pick(_, _)
      pick(k, acc) == IF k > Len(songs) THEN acc
                      ELSE pick(k + 1, IF k \in idx THEN Append(acc, songs[k]) ELSE acc)
  IN pick(1, <<>>)

\* C19: a batchTrain call with no qualifying song starts no fit and writes
\* nothing; one with qualifying songs fits exactly their examples, in their
\* order (unless a fit is going on, which makes model.fit throw).
C19_BatchTrainQualifying ==
  [][hist'.act = "batchTrain" =>
        LET q == Qualifying(hist'.songs) IN
        /\ localStorage' = localStorage
        /\ models'[1].model.fits = IF models[1].isInitialized
                                    THEN models[1].model.fits
                                    ELSE models'[1].model.fits
        /\ q = <<>> => models'[1].fit = models[1].fit
        /\ q # <<>> /\ models[1].fit = NoFit =>
              /\ models'[1].fit.kind = "batch"
              /\ models'[1].fit.batch =
                    [k \in 1..Len(q) |-> Example(q[k].features, q[k].gains)]]_vars

\* batchTrain was called with a song that qualifies and one that does not: the
\* fit it started has the one example
C19_Witness ==
  /\ hist.act = "batchTrain" /\ Len(hist.songs) = 2
  /\ models[1].fit.kind = "batch" /\ Len(models[1].fit.batch) = 1

\* C20: initialize() on an initialized object changes neither the object nor
\* the store; predict, train and batchTrain on an object that is not
\* initialized initialize it first.
C20_InitializeIdempotent ==
  [][/\ hist'.act = "initialize" /\ models[1].isInitialized =>
           models' = models /\ localStorage' = localStorage
     /\ hist'.act \in {"initialize", "predict", "train", "batchTrain"} =>
           /\ models'[1].isInitialized
           /\ models'[1].model # NoWeights
           /\ ~models[1].isInitialized =>
                 models'[1].model.fits = loadWeights(localStorage, models[1].userId).fits]_vars

\* initialize() was called again on an object that has been trained in
\* this run
C20_Witness ==
  /\ hist.act = "initialize" /\ hist.outcome = "again"
  /\ fitCount >= 1 /\ models[1].fit = NoFit
  /\ models[1].model.fits # <<>>
  /\ localStorage[models[1].userId] = <<models[1].model>>

(***************************************************************************)
(* The feature pipeline (src/frontend/src/utils/audioFeatures.js) and the   *)
(* gain formulas of the preference model, applied to one input.            *)
(***************************************************************************)
\* this.inputSize, this.outputSize of the constructor
inputSize == 23
outputSize == 4

genres == <<"pop", "rock", "electronic", "hiphop", "jazz", "classical", "country",
            "metal", "reggae", "blues">>

\* new Array(genres.length).fill(0) with genreVector[k] = score; k counts from 0
OneScore(k, score) == [j \in 1..Len(genres) |-> IF j = k + 1 THEN score ELSE 0]

\* classifyGenre as it would be with the rock rule tried first
classifyGenreRockFirst(features) ==
  IF GT(features.tempo, 500) /\ GT(features.rms, 700)
    THEN OneScore(1, 800)
  ELSE IF GT(features.tempo, 600) /\ GT(features.spectralCentroid, 500)
    THEN OneScore(0, 800)
  ELSE IF GT(features.spectralCentroid, 600) /\ GT(features.spectralFlux, 500)
    THEN OneScore(2, 800)
  ELSE IF GT(features.tempo, 550) /\ GT(features.zeroCrossingRate, 400)
    THEN OneScore(3, 800)
  ELSE OneScore(0, 300)

\* classifyGenre(features); scores in thousandths
classifyGenre(features) ==
  IF GT(features.tempo, 600) /\ GT(features.spectralCentroid, 500)
    THEN OneScore(0, 800)
  ELSE IF GT(features.tempo, 500) /\ GT(features.rms, 700)
    THEN OneScore(1, 800)
  ELSE IF GT(features.spectralCentroid, 600) /\ GT(features.spectralFlux, 500)
    THEN OneScore(2, 800)
  ELSE IF GT(features.tempo, 550) /\ GT(features.zeroCrossingRate, 400)
    THEN OneScore(3, 800)
  ELSE OneScore(0, 300)

\* featuresToVector as it would be without the spread of genreVector
featuresToVectorNoGenre(features, genreVector) ==
  <<features.duration, features.sampleRate, features.rms, features.zeroCrossingRate,
    features.spectralCentroid, features.spectralRolloff, features.spectralFlux,
    features.tempo, features.mfcc0, features.mfcc1, features.mfcc2, features.mfcc3,
    features.mfcc4>>

\* featuresToVector(features, genreVector)
featuresToVector(features, genreVector) ==
  <<features.duration, features.sampleRate, features.rms, features.zeroCrossingRate,
    features.spectralCentroid, features.spectralRolloff, features.spectralFlux,
    features.tempo, features.mfcc0, features.mfcc1, features.mfcc2, features.mfcc3,
    features.mfcc4>> \o genreVector

\* the feature records of a run: values on both sides of every threshold of
\* classifyGenre; the spectral flux of a clip shorter than one window of
\* 1024 samples is 0 / 0
FeatureVectors ==
  {[NoFeatures EXCEPT !.duration = 10, !.sampleRate = 919, !.spectralRolloff = 850,
                      !.mfcc0 = 11, !.mfcc1 = 12, !.mfcc2 = 13, !.mfcc3 = 14,
                      !.mfcc4 = 15,
                      !.tempo = t, !.spectralCentroid = sc, !.rms = e,
                      !.spectralFlux = sf, !.zeroCrossingRate = z] :
     t \in {500, 501, 550, 551, 600, 601}, sc \in {500, 501, 600, 601},
     e \in {700, 701}, sf \in {500, 501, NaN}, z \in {400, 401}}

\* the outputs of the tanh layer for an input vector: NaN when an input is
\* NaN, else numbers in [-1, 1] that depend on the weights
Forward(featureVector) ==
  IF \E k \in 1..Len(featureVector) : featureVector[k] = NaN
  THEN {[c \in channels |-> NaN]}
  ELSE Outputs \cup {[c \in channels |-> v] : v \in {-1000, -500, 0, 639, 1000}}

\* (actualGains.vocals + 6) / 18 of train and batchTrain as a number in
\* thousandths: the quotient is not exact, up tells which way it is rounded
normalizedGain(d, up) ==
  IF up /\ ((d + 6) * 1000) % 18 # 0
  THEN ((d + 6) * 1000) \div 18 + 1
  ELSE ((d + 6) * 1000) \div 18

classifyGenreCall ==
  /\ "classifyGenre" \notin calc.done
  /\ calc' = [calc EXCEPT !.done = @ \cup {"classifyGenre"},
                          !.genreVector = classifyGenre(calc.features)]
  /\ UNCHANGED <<mixVars, jobVars, appVars>>

featuresToVectorCall ==
  /\ "classifyGenre" \in calc.done /\ "featuresToVector" \notin calc.done
  /\ calc' = [calc EXCEPT !.done = @ \cup {"featuresToVector"},
                          !.featureVector = featuresToVector(calc.features,
                                                             calc.genreVector)]
  /\ UNCHANGED <<mixVars, jobVars, appVars>>

\* predict(featureVector): the forward pass gives values
predictOf(values) ==
  /\ "featuresToVector" \in calc.done /\ "predict" \notin calc.done
  /\ values \in Forward(calc.featureVector)
  /\ calc' = [calc EXCEPT !.done = @ \cup {"predict"}, !.values = values,
                          !.predicted = predict(values)]
  /\ UNCHANGED <<mixVars, jobVars, appVars>>

\* the target of train for the gain calc.d
normalize(up) ==
  /\ "normalize" \notin calc.done
  /\ calc' = [calc EXCEPT !.done = @ \cup {"normalize"},
                          !.normalized = normalizedGain(calc.d, up)]
  /\ UNCHANGED <<mixVars, jobVars, appVars>>

\* the gain predict gives for the output calc.normalized
denormalize ==
  /\ "normalize" \in calc.done /\ "denormalize" \notin calc.done
  /\ calc' = [calc EXCEPT !.done = @ \cup {"denormalize"},
                          !.back = Gain(calc.normalized)]
  /\ UNCHANGED <<mixVars, jobVars, appVars>>

NextCalc ==
  \/ classifyGenreCall
  \/ featuresToVectorCall
  \/ \E values \in Forward(<<0>>) \cup Forward(<<NaN>>) : predictOf(values)
  \/ \E up \in BOOLEAN : normalize(up)
  \/ denormalize

\* no user is selected; the input is a feature record or a gain of a slider
InitCalc ==
  /\ MixerInit(0, 0)
  /\ mounted = FALSE
  /\ user = NoUser
  /\ tab = "landing"
  /\ songsByUser = [v \in Users |-> <<>>]
  /\ userModelRef = 0
  /\ userModelProp = 0
  /\ models = [m \in ModelIds |-> NoModel]
  /\ localStorage = [v \in Users |-> <<>>]
  /\ fitCount = 0
  /\ mixerGains = NoGains
  /\ autoPlayMix = FALSE
  /\ hist = NoHist
  /\ \/ \E f \in FeatureVectors : calc = [NoCalc EXCEPT !.features = f]
     \/ \E d \in -24..12 : calc = [NoCalc EXCEPT !.d = d]

SpecCalc == InitCalc /\ [][NextCalc]_vars

\* C22: every gain predict returns is an integer in [-24, 12], computed
\* from an output v in [-1, 1] as round(18 v - 6), clamped.
C22_PredictRange ==
  "predict" \in calc.done =>
     \A c \in channels :
        /\ calc.values[c] \in -1000..1000
        /\ calc.predicted[c] \in -24..12
        /\ calc.predicted[c] =
              Max(-24, Min(12, (calc.values[c] * 18 - 6000 + 500) \div 1000))

\* C24: (d + 6) / 18 lies in [-1, 1] for every integer d in [-24, 12], and
\* round(18 r - 6), clamped, gives d back, whichever way the quotient r was
\* rounded.
C24_AffineRoundTrip ==
  /\ "normalize" \in calc.done => calc.normalized \in -1000..1000
  /\ "denormalize" \in calc.done => calc.back = calc.d

\* 1 dB became 7/18, stored as 0.389, and came back as 1 dB
C24_Witness ==
  /\ "denormalize" \in calc.done
  /\ calc.d = 1 /\ calc.normalized = 389 /\ calc.back = 1

\* x > t as the rule table means it: false for a value that is not a number
Above(x, t) == x # NaN /\ x > t

\* the slot (from 1) and the score the rule table gives a feature record
RuleOf(f) ==
  CASE Above(f.tempo, 600) /\ Above(f.spectralCentroid, 500) -> <<1, 800>>
    [] ~(Above(f.tempo, 600) /\ Above(f.spectralCentroid, 500))
       /\ Above(f.tempo, 500) /\ Above(f.rms, 700) -> <<2, 800>>
    [] ~(Above(f.tempo, 600) /\ Above(f.spectralCentroid, 500))
       /\ ~(Above(f.tempo, 500) /\ Above(f.rms, 700))
       /\ Above(f.spectralCentroid, 600) /\ Above(f.spectralFlux, 500) -> <<3, 800>>
    [] ~(Above(f.tempo, 600) /\ Above(f.spectralCentroid, 500))
       /\ ~(Above(f.tempo, 500) /\ Above(f.rms, 700))
       /\ ~(Above(f.spectralCentroid, 600) /\ Above(f.spectralFlux, 500))
       /\ Above(f.tempo, 550) /\ Above(f.zeroCrossingRate, 400) -> <<4, 800>>
    [] OTHER -> <<1, 300>>

RECURSIVE SumTo(_, _)
SumTo(v, k) == IF k = 0 THEN 0 ELSE v[k] + SumTo(v, k - 1)

\* C27: the genre vector has 10 entries, exactly one of them is not 0: 0.8
\* in the slot of the first rule that matches, or 0.3 in the pop slot when
\* none does; the scores are not negative and sum to at most 1.
C27_GenreRuleTable ==
  "classifyGenre" \in calc.done =>
     LET g == calc.genreVector
         rule == RuleOf(calc.features)
     IN /\ Len(g) = 10
        /\ Cardinality({k \in 1..Len(g) : g[k] # 0}) = 1
        /\ g[rule[1]] = rule[2]
        /\ \A k \in 1..Len(g) : g[k] >= 0
        /\ SumTo(g, Len(g)) <= 1000

\* a record for which the pop and the rock rule both match got the pop slot
C27_Witness ==
  /\ "classifyGenre" \in calc.done
  /\ calc.features.tempo = 601 /\ calc.features.spectralCentroid = 501
  /\ calc.features.rms = 701
  /\ calc.genreVector[1] = 800 /\ calc.genreVector[2] = 0

\* C28: the model input has 23 entries, the input size of the model: the
\* 13 features in their fixed order, then the 10 genre scores in order.
C28_ModelInputShape ==
  "featuresToVector" \in calc.done =>
     LET v == calc.featureVector IN
     /\ Len(v) = 23 /\ Len(v) = inputSize
     /\ \A k \in 1..13 : v[k] = calc.features[featureNames[k]]
     /\ \A k \in 1..10 : v[13 + k] = calc.genreVector[k]
     /\ calc.genreVector = classifyGenre(calc.features)

\* the input of a record of the electronic slot
C28_Witness ==
  /\ "featuresToVector" \in calc.done
  /\ calc.featureVector[8] = 500 /\ calc.featureVector[5] = 601
  /\ calc.featureVector[16] = 800

\* ---- the stored weights ----
\* C21: when a fit of train or batchTrain has ended, a new object of the
\* same user that is initialized from the store has the weights of the
\* trained object, and the items of the other users are what they were.
C21_PersistRoundTrip ==
  [][hist'.act = "fitted" /\ models[1].fit # NoFit =>
        /\ \A seed \in Seeds :
              initialize(NewModel(models[1].userId), localStorage', seed).model =
                 models'[1].model
        /\ \A v \in Users \ {models[1].userId} : localStorage'[v] = localStorage[v]]_vars

(***************************************************************************)
(* The gains of a Mixer session: slider edits, predictions, songs that are *)
(* played from My Songs, user switches.                                    *)
(***************************************************************************)
\* a clip of fewer than 1024 samples
ShortClip == [name |-> <<"c", ".", "w">>, feat |-> ShortFeat]

\* the outputs of the network for the features of upload i
OutputsOf(i) ==
  IF uploads[i].pc # "predict" THEN {}
  ELSE IF uploads[i].f.feat = ShortFeat THEN {[c \in channels |-> NaN]}
  ELSE Outputs

\* userModel.predict of upload i resolves with the gains of the outputs values
PredictResolves(i, values) ==
  /\ values \in OutputsOf(i)
  /\ PredictDone(i, values)

\* ---- the Play button of song k in My Songs: handleSongSelect; a song
\* without gains only raises the alert ----
handleSongSelect(k) ==
  LET song == songsByUser[user][k] IN
  /\ user # NoUser /\ tab = "mysongs"
  /\ k \in 1..Len(songsByUser[user])
  /\ IF song.gains # NoGains
     THEN /\ mixerGains' = song.gains
          /\ tab' = "mixer"
          /\ autoPlayMix' = TRUE
          /\ userModelProp' = userModelRef
          /\ models' = Collect(models, userModelRef, userModelRef)
          /\ hist' = [NoHist EXCEPT !.act = "select", !.idx = k, !.outcome = "restored"]
          /\ FreshWith(TRUE, song.gains, TRUE)
     ELSE /\ hist' = [NoHist EXCEPT !.act = "select", !.idx = k, !.outcome = "alert"]
          /\ UNCHANGED <<mixVars, jobVars, mixerGains, tab, autoPlayMix, userModelProp,
                         models>>
  /\ UNCHANGED <<user, songsByUser, userModelRef, localStorage, fitCount, calc>>

NextSession ==
  \/ \E u \in Users : onSelectUser(u)
  \/ SwitchUser
  \/ \E t \in {"mixer", "mysongs"} : setTab(t)
  \/ \E f \in Files \cup {ShortClip} : handleUpload(f)
  \/ \E i \in UploadIds : ExtractDone(i)
  \/ \E i \in UploadIds, v \in Outputs \cup {[c \in channels |-> NaN]} :
        PredictResolves(i, v)
  \/ \E e \in SliderEdits : HandleChange(e[1], e[2])
  \/ \E k \in 1..MaxSongs : handleSongSelect(k)

\* a song as handleSave stores it
SavedSong == Mix([name |-> <<"a", ".", "m">>, feat |-> 1],
                 [DefaultGains EXCEPT !["vocals"] = 6], 1)

\* the App before a user is selected; the song lists are read from
\* localStorage: nothing, or a song of Alex
InitSession ==
  /\ MixerInit(0, 1)
  /\ mounted = FALSE
  /\ user = NoUser
  /\ tab = "landing"
  /\ \E list \in {<<>>, <<SavedSong>>} :
       songsByUser = [v \in Users |-> IF v = "Alex" THEN list ELSE <<>>]
  /\ userModelRef = 0
  /\ userModelProp = 0
  /\ models = [m \in ModelIds |-> NoModel]
  /\ localStorage = [v \in Users |-> <<>>]
  /\ fitCount = 0
  /\ mixerGains = NoGains
  /\ autoPlayMix = FALSE
  /\ hist = NoHist
  /\ calc = NoCalc

SpecSession == InitSession /\ [][NextSession]_vars

\* C23: each of the four gains of a mounted Mixer is an integer in [-24, 12].
C23_GainsInRange ==
  mounted => \A c \in channels : gains[c] \in -24..12

\* ---- the model a handler works on ----
\* handleFileSelect of some upload calls userModel.predict in this step
PredictCalled == \E i \in UploadIds : uploads[i].pc = "extract" /\ uploads'[i].pc = "predict"

\* C25: every predict of handleFileSelect and every train / batchTrain of
\* handleSaveMix / handleDeleteSong runs on a model object whose userId is the
\* selected user.
C25_ModelOfSelectedUser ==
  [][/\ PredictCalled => models[userModelProp].userId = user
     /\ hist'.act \in {"save", "delete"} /\ hist'.call # "none" =>
           models[userModelRef].userId = user]_vars

\* C26: when handleFileSelect ends after a prediction, the gains are the
\* prediction; when it ends without one (no model, no features) the gains are
\* what they were; either way handleUpload goes on to submit the file.
C26_FileSelectionSeeding ==
  [][\A i \in UploadIds :
       /\ uploads[i].pc = "extract" /\ uploads'[i].pc # "extract" =>
            /\ gains' = gains
            /\ uploads'[i].pc =
                  IF /\ uploads[i].f.feat # 0 /\ userModelProp # 0
                     /\ models[userModelProp].isInitialized
                  THEN "predict" ELSE "submit"
       /\ uploads[i].pc = "predict" /\ uploads'[i].pc # "predict" =>
            /\ mounted => gains' \in {predict(v) : v \in Outputs}
            /\ uploads'[i].pc = "submit"]_vars

\* the file was selected with a model at hand: the sliders show the
\* prediction and the file has been submitted
C26_Witness ==
  /\ mounted /\ audioFeatures # 0 /\ separating
  /\ gains \in {predict(v) : v \in Outputs} /\ gains # DefaultGains
  /\ \E i \in UploadIds : uploads[i].pc = "submit"

\* ---- the handover of a live update ----
\* handleCanPlay of call i runs in this step
HandoverBegins(i) == ops[i].kind = "update" /\ ops[i].pc = "load" /\ ops'[i].pc # "load"
                     /\ ops'[i].pc # "failed"

\* the fallback timeout of call i runs in this step
FallbackRuns(i) == ops[i].pc = "load" /\ ops[i].fb = 0 /\ ops'[i].fb # 0
                   /\ ops'[i].pc # "failed"

\* C29: the handover of a rendered live update begins only in a step in which
\* the new stream becomes ready to play through or the fallback timeout
\* runs, it begins when the first of the two happens, and it never begins a
\* second time.
C29_ReadinessBeforeHandover ==
  [][\A i \in OpIds :
       /\ HandoverBegins(i) =>
             \/ ~audios[i].ready /\ audios'[i].ready
             \/ FallbackRuns(i)
       /\ ops[i].pc = "load" /\ ~audios[i].ready /\ audios'[i].ready => HandoverBegins(i)
       /\ FallbackRuns(i) => HandoverBegins(i)
       /\ ops[i].kind = "update" /\ ops[i].pc \in {"playwait", "fade", "ok"} =>
             ops'[i].pc # "load"]_vars

\* a step of the crossfade interval of call i
FadeSteps(i) == ops[i].kind = "update" /\ ops[i].pc = "fade" /\
                (ops'[i].step > ops[i].step \/ ops'[i].pc = "ok")

\* C30: after k runs of the crossfade interval the new stream is at k/30
\* and the old one at 1 - k/30; the live reference moves to the new stream,
\* the old stream is paused and the new one is at full volume when and only
\* when the 30th run is over.
C30_CrossfadeLockstep ==
  [][\A i \in OpIds :
       /\ FadeSteps(i) /\ ops'[i].pc = "fade" =>
             /\ audios'[i].vol = ops'[i].step
             /\ audios'[ops[i].old].vol = steps - ops'[i].step
             /\ audioRef' = audioRef
       /\ FadeSteps(i) /\ ops'[i].pc = "ok" =>
             /\ audios'[i].vol = steps
             /\ audios'[ops[i].old].paused
             /\ audioRef' = i
       /\ ops[i].kind = "update" /\ ops[i].wasPlaying /\ ops[i].pc \in {"playwait", "fade"}
          /\ audioRef # i /\ audioRef' = i => FadeSteps(i) /\ ops'[i].pc = "ok"]_vars

(***************************************************************************)
(* The flags of the Mixer and the render requests it sends.                *)
(***************************************************************************)
\* C36: in every state of the Mixer, paused implies playing (pause is offered
\* while playing and not paused, resume while paused, stop while playing,
\* play while not playing).
C36_PausedImpliesPlaying == paused => playing

\* the mix was paused while a live update was on its way
C36_Witness ==
  /\ mounted /\ paused /\ playing
  /\ \E i \in OpIds : ops[i].kind = "update" /\ Running(i)

\* a step in which the render request of live update i is sent
LiveRequested(i) == ops[i].kind = "none" /\ ops'[i].kind = "update"

\* C31: a live render request is sent only in a state where the mix is
\* playing and not paused, so none is sent after pause, stop or the end of
\* the stream; a slider edit made while nothing plays or while paused
\* schedules none.
C31_LiveRenderOnlyWhilePlaying ==
  [][/\ \A i \in OpIds : LiveRequested(i) => playing /\ ~paused
     /\ edits' = edits + 1 /\ ~(playing /\ ~paused) => timers' = timers]_vars

\* playback is in progress: the live stream is not paused
InProgress == audioRef # 0 /\ Unpaused(audioRef)

\* C32: when the handover of a live update happens while playback is not in
\* progress, the old stream is paused, the new stream becomes the live
\* reference at volume 1 without being started, and no stream becomes
\* audible; when it happens while playback is in progress, the new stream
\* plays (unless the device rejects its play()).
C32_HandoverByPlaybackState ==
  [][\A i \in OpIds : HandoverBegins(i) =>
        /\ ~InProgress =>
              /\ audios'[ops[i].old].paused
              /\ audioRef' = i /\ audios'[i].vol = steps /\ audios'[i].paused
              /\ Audible' \subseteq Audible
        /\ InProgress =>
              \/ ~audios'[i].paused
              \/ ops[i].wasPlaying /\ ops'[i].pc = "ok"]_vars

\* C35: in a quiescent state of a mounted Mixer (no play request, debounce
\* timer, render request or handover pending) the live stream is un-paused
\* if and only if playing is true and paused is false, and no other stream
\* is un-paused.
C35_FlagsAgreeWithAudio ==
  Quiescent /\ mounted =>
     /\ InProgress <=> (playing /\ ~paused)
     /\ Audible \subseteq {audioRef}

(***************************************************************************)
(* What the parameters of a model are trained on.                          *)
(***************************************************************************)
\* the examples that the weights w were fitted on since they were created
ExamplesIn(w) ==
  UNION {{w.fits[k].batch[j] : j \in 1..Len(w.fits[k].batch)} : k \in 1..Len(w.fits)}

\* C33: when the fit of a batchTrain call has ended, the parameters of the
\* model are fitted on the examples of that batch alone: an example that was
\* trained earlier and is not in the batch does not contribute.
C33_BatchTrainFromScratch ==
  [][hist'.act = "fitted" /\ models[1].fit.kind = "batch" /\ models'[1].model # NaNWeights =>
        ExamplesIn(models'[1].model) =
           {models[1].fit.batch[j] : j \in 1..Len(models[1].fit.batch)}]_vars

(***************************************************************************)
(* Saving in a Mixer session that takes several uploads.                   *)
(***************************************************************************)
NextSave ==
  \/ \E f \in Files \cup {ShortClip} : handleUpload(f)
  \/ \E i \in UploadIds : ExtractDone(i)
  \/ \E i \in UploadIds, v \in Outputs \cup {[c \in channels |-> NaN]} :
        PredictResolves(i, v)
  \/ handleSave
  \/ \E m \in ModelIds : FitDone(m)

\* the Mixer of a user whose model the Mixer may or may not have got as prop
SpecSave == InitJob /\ [][NextSave]_vars

\* a step of handleSave: handleSaveMix awaits train or stores the mix at once
SaveClicked == hist'.act = "save" /\ (fitCount' # fitCount \/ (mounted /\ ~mounted'))

\* C34: the features a save carries, stores and submits to train were
\* extracted from the file whose name gives the title; when the extraction
\* of the selected file failed the save carries no features and train is not
\* called.
C34_FeaturesOfSavedFile ==
  [][SaveClicked =>
        LET mix == Mix(file, gains, audioFeatures) IN
        /\ mix.title = Title(file.name)
        /\ mix.features \in {<<>>, <<file.feat>>}
        /\ file.feat = 0 => mix.features = <<>> /\ hist'.call = "none"]_vars

(***************************************************************************)
(* The polling of the separation tracker as time goes on: the interval     *)
(* keeps firing while it is set, the responses arrive, the service ends    *)
(* its job.  The service answers a status query with a status and a        *)
(* progress in [0, 1] that it reports together.                            *)
(***************************************************************************)
\* the service ends its job and reports the progress l with status completed
ServiceCompletes(l) ==
  /\ job.status = "processing"
  /\ job' = [status |-> "completed", progress |-> l]
  /\ UNCHANGED mixVars
  /\ UNCHANGED <<upBudget, file, audioFeatures, separating, progress, progressIntervalRef,
                 intervals, uploads, nextUpload, polls, pollCount, alerts,
                 terminalSeen>>
  /\ UNCHANGED <<appVars, calc>>

\* the interval callback, pollProgress() up to the response, when the polls
\* of a run are not counted: at most MaxPolls wait for their response
IntervalFires(i) ==
  /\ i \in intervals
  /\ BagCardinality(polls) < MaxPolls
  /\ polls' = polls (+) SetToBag({[by |-> i, data |-> job]})
  /\ UNCHANGED mixVars
  /\ UNCHANGED <<upBudget, file, audioFeatures, separating, progress, progressIntervalRef,
                 intervals, uploads, nextUpload, pollCount, job, alerts, terminalSeen>>
  /\ UNCHANGED <<appVars, calc>>

NextPoll ==
  \/ \E f \in Files : handleUpload(f)
  \/ \E i \in UploadIds : ExtractDone(i)
  \/ \E i \in UploadIds, v \in Outputs : PredictDone(i, v)
  \/ \E i \in UploadIds : ServiceAccepts(i)
  \/ \E i \in UploadIds : SubmitAccepted(i)
  \/ \E i \in UploadIds : SubmitFailed(i)
  \/ \E i \in UploadIds : IntervalFires(i)
  \/ \E p \in PollRecs : PollFailed(p)
  \/ \E p \in PollRecs : PollResponse(p)
  \/ \E l \in ProgressLevels : ServiceProgress(l)
  \/ \E l \in ProgressLevels : ServiceCompletes(l)
  \/ ServiceError
  \/ Unmount

\* an interval that is set fires again and again, polls are answered again
\* and again, and the service ends its job
FairPoll ==
  /\ WF_vars(\E i \in UploadIds : IntervalFires(i))
  /\ SF_vars(\E p \in PollRecs : PollResponse(p))
  /\ WF_vars(ServiceError \/ \E l \in ProgressLevels : ServiceCompletes(l))

SpecPoll == InitJobFew /\ [][NextPoll]_vars /\ FairPoll

\* C37: once the polling interval of an accepted upload is set, the tracker
\* eventually is not separating and no polling interval is set, whatever
\* progress the service reports together with status completed.
C37_PollingTerminates ==
  (intervals # {}) ~> ((~mounted \/ ~separating) /\ intervals = {})

(***************************************************************************)
(* The song lists of the users.                                            *)
(***************************************************************************)
\* the mixes of the saves that can end in a step
EndingMixes == {Mix(file, gains, audioFeatures)} \cup {models[m].fit.mix : m \in ModelIds}

\* C39: a save that was made while user u was selected and a delete change
\* the song list of u alone, and a mix that is not in the list of u is
\* appended to it, also when the list of another user holds a song with its
\* title and summary.
C39_SongListsIsolated ==
  [][\A u \in Users :
        /\ \/ DeleteStep /\ u = user
           \/ \E mix \in EndingMixes : SavesAtOnce(u, mix) \/ SavesAfterTrain(u, mix)
           => \A v \in Users \ {u} : songsByUser'[v] = songsByUser[v]
        /\ \A mix \in EndingMixes :
              (SavesAtOnce(u, mix) \/ SavesAfterTrain(u, mix)) /\ ~Stored(u, mix) =>
                 songsByUser'[u] = Append(songsByUser[u], mix)]_vars

\* a save of Sam was accepted although the list of Alex holds a song with
\* its title and summary
C39_Witness ==
  /\ hist.act \in {"save", "saved"} /\ hist.outcome = "accepted"
  /\ Len(songsByUser["Alex"]) = 1 /\ Len(songsByUser["Sam"]) = 1
  /\ SameSong(songsByUser["Alex"][1], songsByUser["Sam"][1])
  /\ user = "Sam"

(***************************************************************************)
(* The start of a Mixer session and the play of a saved song.              *)
(***************************************************************************)
\* a step in which a Mixer is mounted
SessionStarts == ~mounted /\ mounted'

\* C38: a Mixer session of user U starts with the default gains or with the
\* gains of a saved song of U; gains restored for another user are never
\* its starting gains.
C38_InitialGains ==
  [][SessionStarts =>
        \/ gains' = DefaultGains
        \/ \E k \in 1..Len(songsByUser[user']) : gains' = songsByUser[user'][k].gains]_vars

\* a song without a gains field, as an earlier version of the App saved it
OldSong == [SavedSong EXCEPT !.title = <<"o">>, !.gains = NoGains]

\* ---- the timeout of the autoPlay effect, 100 ms after the render that set
\* it: playMix() of that render up to the fetch, then onPlayComplete() ----
AutoPlayFire ==
  /\ autoTimer.set
  /\ nextOp < opBudget
  /\ autoTimer' = NoTimer
  /\ nextOp' = nextOp + 1
  /\ ops' = [ops EXCEPT ![nextOp + 1] =
         [NoOp EXCEPT !.kind = "play", !.pc = "fetch", !.g = autoTimer.g]]
  /\ stopped' = FALSE
  /\ autoPlayMix' = FALSE
  /\ hist' = [NoHist EXCEPT !.act = "autoplay"]
  /\ UNCHANGED <<mounted, gains, playing, paused, audioRef, updateTimeoutRef,
                 timers, edits, audios, opBudget, burst>>
  /\ UNCHANGED <<jobVars, calc>>
  /\ UNCHANGED <<user, tab, songsByUser, userModelRef, userModelProp, models,
                 localStorage, fitCount, mixerGains>>

NextPlay ==
  \/ \E u \in Users : onSelectUser(u)
  \/ SwitchUser
  \/ \E t \in {"mixer", "mysongs"} : setTab(t)
  \/ \E e \in SliderEdits : HandleChange(e[1], e[2])
  \/ \E k \in 1..MaxSongs : handleSongSelect(k)
  \/ AutoPlayFire

\* the App before a user is selected; the song lists are read from
\* localStorage: Alex has a song with gains and one without
InitPlay ==
  /\ MixerInit(MaxOps, 0)
  /\ mounted = FALSE
  /\ user = NoUser
  /\ tab = "landing"
  /\ songsByUser = [v \in Users |-> IF v = "Alex" THEN <<SavedSong, OldSong>> ELSE <<>>]
  /\ userModelRef = 0
  /\ userModelProp = 0
  /\ models = [m \in ModelIds |-> NoModel]
  /\ localStorage = [v \in Users |-> <<>>]
  /\ fitCount = 0
  /\ mixerGains = NoGains
  /\ autoPlayMix = FALSE
  /\ hist = NoHist
  /\ calc = NoCalc

SpecPlay == InitPlay /\ [][NextPlay]_vars

\* a step of handleSongSelect for a song with gains, for one without
Restores == hist'.act = "select" /\ hist'.outcome = "restored" /\ ~mounted /\ mounted'
Alerts == hist'.act = "select" /\ hist'.outcome = "alert" /\ hist' # hist

\* C40: selecting a saved song with gains opens a Mixer session with the
\* gains of the song; that session issues the one automatic play request,
\* which carries the gains of the song and resets the auto-play flag, before
\* it ends; no other session issues one.  Selecting a song without gains
\* changes neither the gains nor the tab and issues no request.
C40_PlaySavedSong ==
  [][/\ Restores =>
           /\ tab' = "mixer"
           /\ gains' = songsByUser[user][hist'.idx].gains
     /\ nextOp' = nextOp + 1 =>
           /\ hist.act = "select"
           /\ ops'[nextOp'].kind = "play"
           /\ ops'[nextOp'].g = songsByUser[user][hist.idx].gains
           /\ ~autoPlayMix'
     /\ hist.act = "select" /\ hist.outcome = "restored" /\ mounted => mounted'
     /\ Alerts =>
           /\ gains' = gains /\ mixerGains' = mixerGains /\ tab' = tab
           /\ nextOp' = nextOp /\ ~autoTimer'.set]_vars

====
